---- MODULE Spec2Model ----
(***************************************************************************)
(* Pixarr ingest engine (scripts/ingest_pass.py): the catalog (media,      *)
(* sightings, ingests), the staging / Review / Quarantine trees, and the   *)
(* per-source, per-file pipeline of ingest_one_source as driven by main.   *)
(*                                                                         *)
(* One behaviour is a sequence of invocations of main() over a persistent  *)
(* data directory.  The catalog rows model the columns the engine reads or *)
(* decides on (id, hash_sha256, content_sha256, taken_at, gps_lat,         *)
(* gps_lon, state, canonical_path, quarantine_reason, updated_at,          *)
(* last_verified_at); phash, ext, bytes, tz_offset, xmp_written and        *)
(* added_at are written once and never read by the engine and are left     *)
(* out.  Timestamps are values of a logical clock.                         *)
(***************************************************************************)
EXTENDS Integers, Sequences, FiniteSets, TLC

NULL == "NULL"

(* ---------------------------------------------------------------- bounds *)
\* rows of table ingests: source scans begun in one behaviour
MaxBatches == 4
\* files lying in the staging roots when the first invocation starts
MaxStaged == 2
\* faults in one behaviour: steps of the loop body whose file operations (stat,
\* read, rename, copy, unlink, mkdir) fail, and interrupts of the process
MaxFaults == 1
\* rows the catalog holds before the first invocation
MaxPreRows == 1
\* settings of pixarr.toml that depart from the defaults
MaxOverrides == 1
\* catalog rows before the first invocation, in the runs that exercise the duplicate lookups
MaxDedupRows == 2
\* requests that POST /api/staging/sync/icloud receives
MaxRequests == 3

(* ------------------------------------------------------ program constants *)
JUNK_FILES == {".DS_Store", "Thumbs.db", "desktop.ini"}

JUNK_PREFIXES == {"._"}

IMAGE_EXT == {".jpg", ".jpeg", ".png", ".tif", ".tiff", ".gif", ".webp", ".heic", ".heif", ".avif"}

RAW_EXT == {".dng", ".cr2", ".cr3", ".nef", ".arw", ".raf", ".rw2", ".orf", ".srw"}

VIDEO_EXT == {".mp4", ".mov", ".m4v", ".avi", ".webm", ".mkv"}

SUPPORTED_EXT == IMAGE_EXT \cup RAW_EXT \cup VIDEO_EXT

REVIEW_ROOT == "Review"

QUARANTINE_ROOT == "Quarantine"

LIBRARY_ROOT == "Library"

QuarKeys == {"junk", "unsupported_ext", "zero_bytes", "stat_error", "move_failed", "dupes", "missing_datetime"}

Policies == {"ignore", "quarantine", "delete"}

States == {"review", "library", "quarantine", "deleted"}

\* REASON_TO_SUBDIR.get(reason, reason)
REASON_TO_SUBDIR(reason) ==
    IF reason \in {"duplicate_in_library", "duplicate_in_review"} THEN "duplicate" ELSE reason

\* QUARANTINE_ROOT / subdir
QuarantineDir(reason) == QUARANTINE_ROOT \o "/" \o REASON_TO_SUBDIR(reason)

(* -------------------------------------------------- files, names, contents *)
\* A file name is (pre, stem, ext): pre is "._" for an AppleDouble name, ext is
\* Path.suffix, stem the rest.
Name(pre, stem, ext) == [pre |-> pre, stem |-> stem, ext |-> ext]

FileName(n) == n.pre \o n.stem \o n.ext

\* dir / name as str(path)
PathStr(dir, n) == dir \o "/" \o FileName(n)

\* A SHA-256 digest is written as its first 8 hex characters and a tail.
Digest(p8, rest) == p8 \o rest

T1 == "2024-07-08T08:00:38"

T2 == "2019-01-01T01:02:03"

T3 == "2024-07-10T20:08:42"

\* The contents a file can have: what sha256_file, compute_image_content_sha256,
\* exiftool_json and stat() return for it.
Blobs ==
    [ A |-> [hash |-> Digest("abcd1234", "a"), pixels |-> "px1", size |-> 1,
             meta |-> [DateTimeOriginal |-> "2024:07:08 08:00:38", GPSLatitude |-> "48.1", GPSLongitude |-> "11.5"]],
      B |-> [hash |-> Digest("beef5678", "b"), pixels |-> "px1", size |-> 1,
             meta |-> [CreateDate |-> "2019:01:01 01:02:03"]],
      C |-> [hash |-> Digest("c0ffee00", "c"), pixels |-> NULL, size |-> 1,
             meta |-> [DateTimeOriginal |-> "0000:00:00 00:00:00", ModifyDate |-> "2019:01:01 01:02:03"]],
      D |-> [hash |-> Digest("abcd1234", "d"), pixels |-> "px2", size |-> 1,
             meta |-> [DateTimeOriginal |-> "2024:07:08 08:00:38"]],
      Z |-> [hash |-> Digest("e3b0c442", "z"), pixels |-> NULL, size |-> 0,
             meta |-> [FileModifyDate |-> "2019:01:01 01:02:03"]],
      E |-> [hash |-> Digest("feed9abc", "e"), pixels |-> "px1", size |-> 1,
             meta |-> [DateTimeOriginal |-> "2024:07:10 20:08:42"]],
      R1 |-> [hash |-> Digest("00000001", "r"), pixels |-> "px11", size |-> 1,
              meta |-> [CreateDate |-> "2019:01:01 01:02:03", DateTimeOriginal |-> "2024:07:08 08:00:38"]],
      R2 |-> [hash |-> Digest("00000002", "r"), pixels |-> "px12", size |-> 1,
              meta |-> [DateTimeOriginal |-> "0000:00:00 00:00:00", CreateDate |-> "2019:01:01 01:02:03",
                        ModifyDate |-> "2024:07:10 20:08:42"]],
      R3 |-> [hash |-> Digest("00000003", "r"), pixels |-> "px13", size |-> 1,
              meta |-> [ModifyDate |-> "2024:07:08 08:00:38", FileModifyDate |-> "2024:07:10 20:08:42"]],
      R4 |-> [hash |-> Digest("00000004", "r"), pixels |-> "px14", size |-> 1,
              meta |-> [FileModifyDate |-> "2024:07:10 20:08:42"]],
      R5 |-> [hash |-> Digest("00000005", "r"), pixels |-> "px15", size |-> 1,
              meta |-> [SourceFile |-> "x.jpg"]],
      R6 |-> [hash |-> Digest("00000006", "r"), pixels |-> "px16", size |-> 1,
              meta |-> [TrackCreateDate |-> "not a date", MediaCreateDate |-> "1970:01:01 00:00:00",
                        FileModifyDate |-> "2024:07:08 08:00:38"]
                       @@ ("QuickTime:CreateDate" :> "2024:07:10 20:08:42")] ]

BlobIds == DOMAIN Blobs

\* The files that may lie in the staging roots before the first invocation.
StagedUniverse ==
    { [src |-> "Staging/pc",    name |-> Name("", "IMG_001", ".jpg"),                   blob |-> "A"],
      [src |-> "Staging/pc",    name |-> Name("", "IMG_001b", ".jpg"),                  blob |-> "D"],
      [src |-> "Staging/pc",    name |-> Name("", "edited", ".jpg"),                    blob |-> "B"],
      [src |-> "Staging/pc",    name |-> Name("", "PHOTO-2024-07-10-20-08-42", ".jpg"), blob |-> "C"],
      [src |-> "Staging/pc",    name |-> Name("._", "IMG_001", ".jpg"),                 blob |-> "Z"],
      [src |-> "Staging/other", name |-> Name("", "notes", ".txt"),                     blob |-> "C"],
      [src |-> "Staging/other", name |-> Name("", "empty", ".jpg"),                     blob |-> "Z"] }

(* ------------------------------------------------------------ pure helpers *)
\* name in JUNK_FILES or any(name.startswith(pref) for pref in JUNK_PREFIXES)
IsJunk(n) == FileName(n) \in JUNK_FILES \/ n.pre \in JUNK_PREFIXES

is_media_candidate(n) == n.ext \in SUPPORTED_EXT

\* _parse_exif_dt followed by isoformat(): the sentinel dates and unparseable
\* values give NULL, "YYYY:MM:DD HH:MM:SS" gives "YYYY-MM-DDTHH:MM:SS".
_parse_exif_dt(s) ==
    CASE s = "2024:07:08 08:00:38" -> T1
      [] s = "2019:01:01 01:02:03" -> T2
      [] s = "2024:07:10 20:08:42" -> T3
      [] OTHER -> NULL

BASE_DATE_KEYS ==
    << "DateTimeOriginal", "CreateDate", "MediaCreateDate", "TrackCreateDate",
       "QuickTime:CreateDate", "QuickTime:CreationDate" >>

\* main: base_keys, plus ModifyDate / FileModifyDate under --allow-file-dates
DateKeys(allow_file_dates) ==
    IF allow_file_dates THEN BASE_DATE_KEYS \o << "ModifyDate", "FileModifyDate" >> ELSE BASE_DATE_KEYS

RECURSIVE FirstDate(_, _, _)
FirstDate(meta, keys, i) ==
    IF i > Len(keys) THEN NULL
    ELSE LET v == IF keys[i] \in DOMAIN meta THEN meta[keys[i]] ELSE NULL
             dt == IF v = NULL THEN NULL ELSE _parse_exif_dt(v)
         IN IF dt # NULL THEN dt ELSE FirstDate(meta, keys, i + 1)

extract_taken_at_exif_only(meta, keys) == FirstDate(meta, keys, 1)

\* the exception datetime(y, mo, d, H, M, S) raises for fields out of range
ValueError == "ValueError"

\* _taken_from_filename followed by isoformat()
\* (a name whose digits match a pattern but are no date, month 13, makes the
\* datetime constructor raise: the result is then ValueError)
_taken_from_filename(n) ==
    CASE n.stem = "PHOTO-2024-07-10-20-08-42" -> T3
      [] n.stem = "PHOTO-2019-01-01-01-02-03" -> T2
      [] n.stem = "PHOTO-2024-13-10-20-08-42" -> ValueError
      [] OTHER -> NULL

\* the resolver that asks the filename before the metadata
resolve_taken_at_FilenameFirst(meta, n, allow_filename_dates, keys) ==
    LET t == extract_taken_at_exif_only(meta, keys)
        f == IF allow_filename_dates THEN _taken_from_filename(n) ELSE NULL
    IN IF f # NULL THEN f ELSE t

resolve_taken_at(meta, n, allow_filename_dates, keys) ==
    LET t == extract_taken_at_exif_only(meta, keys)
    IN IF t # NULL THEN t
       ELSE IF allow_filename_dates THEN _taken_from_filename(n)
       ELSE NULL

\* datetime.strftime("%Y-%m-%d_%H-%M-%S") of an ISO timestamp
Stamp(t) ==
    CASE t = T1 -> "2024-07-08_08-00-38"
      [] t = T2 -> "2019-01-01_01-02-03"
      [] t = T3 -> "2024-07-10_20-08-42"

canonical_name(taken_at_iso, hash_hex, ext) ==
    Name("", Stamp(taken_at_iso) \o "_" \o SubSeq(hash_hex, 1, 8), ext)

\* uuid.uuid5(NAMESPACE_DNS, hash_hex): a function of the digest alone
uuid_from_hash(hash_hex) == "uuid5:" \o hash_hex


(* ------------------------------------------------------------------ state *)
VARIABLES
    disk,        \* the files under the data directory: records [dir, name, blob]
    sidecars,    \* the *.quarantine.json files: path |-> payload
    media,       \* table media as the open connection sees it
    sightings,   \* table sightings as the open connection sees it (in rowid order)
    ingests,     \* table ingests (begin_ingest / finish_ingest commit at once)
    durable,     \* media and sightings as of the last commit
    faults,      \* file operations that have failed so far
    toml,        \* pixarr.toml: [ingest] on_review_dupe, allow_file_dates and [quarantine]
    pc,          \* "idle": no process; "main": between sources; "walk": inside a source scan
    cfg,         \* the globals main() sets: DRY_RUN, QUAR, ALLOW_FILENAME_DATES, _DATE_KEYS, on_review_dupe
    srcIdx,      \* position of main's loop in the selected sources
    ingest_id,   \* id of the batch being scanned
    todo,        \* files os.walk has listed and not yet handed to the loop body
    stats,       \* the stats dict of the running ingest_one_source
    decision,    \* the last iteration of the loop body: the file, the branch that ended it,
                 \* the canonical record it chose and the outcome of its file operations
    batch,       \* the running scan as it began: files listed, hashes and sightings in the catalog
    last,        \* per staging root, the last scan that ran to its end
    ICLOUD,      \* the API process's [icloud] settings: enabled, apple_id, recent
    _icloud_sync_lock,  \* the asyncio.Lock of the sync endpoint: TRUE while held
    requests,    \* the POST /api/staging/sync/icloud requests: where each coroutine is, its response
    procs        \* the icloudpd children that are running, by the request that started them

ingestVars == << disk, sidecars, media, sightings, ingests, durable, faults, toml, pc, cfg, srcIdx, ingest_id, todo, stats, decision, batch, last >>

syncVars == << ICLOUD, _icloud_sync_lock, requests, procs >>

vars == << disk, sidecars, media, sightings, ingests, durable, faults, toml, pc, cfg, srcIdx, ingest_id, todo, stats, decision, batch, last,
           ICLOUD, _icloud_sync_lock, requests, procs >>

\* main: selected = resolve_source_tokens(args.sources), in the order given
SelectedSources == << "Staging/pc", "Custom:/mnt/card", "Staging/other" >>

\* ensure_dirs creates the standard staging roots; a custom root may not exist
RootExists(src) == src \in {"Staging/pc", "Staging/other", "Staging/icloud", "Staging/sdcard"}

Reasons ==
    {"junk", "unsupported_ext", "stat_error", "zero_bytes", "move_failed",
     "duplicate_in_library", "duplicate_in_review", "missing_datetime"}

ZeroStats ==
    [ scanned |-> 0, moved |-> 0, updated |-> 0, skipped_dupe |-> 0, quarantined |-> 0,
      q_counts |-> [r \in Reasons |-> 0], errors |-> 0 ]

NoDecision ==
    [ file |-> NULL, hash |-> NULL, content |-> NULL, branch |-> NULL, raised |-> FALSE,
      canon |-> NULL, basis |-> NULL, reason |-> NULL, move |-> NULL, qmove |-> NULL, unlink |-> NULL,
      sidecar |-> NULL ]

NoBatch == [files |-> {}, hashes |-> {}, nsight |-> 0, rerun |-> FALSE]

NoScan == [files |-> {}, dry |-> TRUE, fn |-> FALSE, clean |-> FALSE]

\* datetime.utcnow(): logical time advances from one batch to the next
Now == "t" \o ToString(ingest_id)

(* -------------------------------------------------------------- filesystem *)
Exists(d, dir, n) == \E e \in d : e.dir = dir /\ e.name = n

\* Path(str).exists() for a stored canonical_path
PathExists(d, pathstr) == \E e \in d : PathStr(e.dir, e.name) = pathstr

RECURSIVE NonClobberFrom(_, _, _, _)
NonClobberFrom(d, dir, n, i) ==
    LET candidate == [n EXCEPT !.stem = n.stem \o "_" \o ToString(i)]
    IN IF ~Exists(d, dir, candidate) THEN candidate ELSE NonClobberFrom(d, dir, n, i + 1)

\* plan_nonclobber(dest_dir, filename): the name to use in dest_dir
plan_nonclobber(d, dir, n) ==
    IF ~Exists(d, dir, n) THEN n ELSE NonClobberFrom(d, dir, n, 2)

\* What a rename-else-copy-then-unlink of one file can do: the rename works;
\* it fails and copy2 + unlink work; the copy works and the unlink fails; rename
\* and copy both fail.
MoveOutcomes == {"rename", "copy", "copy_keep", "fail"}

\* whether a file operation failed in an outcome
Cost(outcome) == IF outcome = "rename" THEN 0 ELSE 1

\* the outcomes the environment may still produce
Affordable(w, outcomes) == { o \in outcomes : w.faults + Cost(o) <= MaxFaults }

Charge(w, n) == [w EXCEPT !.faults = @ + n]

\* the move that unlinks the source whether or not the copy succeeded
Moved_UnlinkAlways(d, src, dir, n, outcome) ==
    CASE outcome \in {"rename", "copy", "copy_keep"} -> (d \ {src}) \cup {[dir |-> dir, name |-> n, blob |-> src.blob]}
      [] OTHER                                       -> d \ {src}

\* the file system after src was moved to (dir, n) with the given outcome
Moved(d, src, dir, n, outcome) ==
    CASE outcome \in {"rename", "copy"} -> (d \ {src}) \cup {[dir |-> dir, name |-> n, blob |-> src.blob]}
      [] outcome = "copy_keep"          -> d \cup {[dir |-> dir, name |-> n, blob |-> src.blob]}
      [] OTHER                          -> d

\* _write_quarantine_sidecar(dest, payload): dest.name + ".quarantine.json"
SidecarPath(dir, n) == PathStr(dir, n) \o ".quarantine.json"

\* the quarantine that writes no sidecar
WriteSidecar_None(sc, path, payload) == sc

WriteSidecar(sc, path, payload) ==
    [q \in (DOMAIN sc) \cup {path} |-> IF q = path THEN payload ELSE sc[q]]

\* What the sidecar's write_text can do: the file is written, or the write
\* fails and _write_quarantine_sidecar swallows the exception.
SidecarOutcomes == {"written", "lost"}

\* quarantine_file with a given outcome of its file operations ("raise":
\* dest_dir.mkdir raises) and of the sidecar write; w.ret is the returned path or NULL
QuarantineResult(w, src, reason, iid, extra, outcome, sc) ==
    IF outcome = "raise" THEN [w EXCEPT !.raised = TRUE, !.ret = NULL, !.qmove = outcome]
    ELSE
    LET dest_dir == QuarantineDir(reason)
        dest     == plan_nonclobber(w.disk, dest_dir, src.name)
        moved    == outcome # "fail"
        payload  == [ reason |-> reason, ingest_id |-> iid,
                      original_path |-> PathStr(src.dir, src.name),
                      quarantined_to |-> IF moved THEN PathStr(dest_dir, dest) ELSE NULL,
                      timestamp |-> "t" \o ToString(iid),
                      extra |-> extra ]
        scpath   == IF moved THEN SidecarPath(dest_dir, dest)
                    ELSE SidecarPath(dest_dir, [src.name EXCEPT !.ext = @ \o ".failed"])
    IN [w EXCEPT !.disk = Moved(w.disk, src, dest_dir, dest, outcome),
                 !.sidecars = IF sc = "written" THEN WriteSidecar(w.sidecars, scpath, payload) ELSE w.sidecars,
                 !.ret = IF moved THEN PathStr(dest_dir, dest) ELSE NULL,
                 !.qmove = outcome,
                 !.sidecar = sc]

\* quarantine_file(src, reason, ingest_id, extra): the worlds it can lead to.
\* When the rename and the copy of src into Review have just failed (w.move =
\* "fail"), the rename and the copy of the same src into Quarantine can fail
\* for the same cause: that is the one fault already counted.
quarantine_file(w, src, reason, iid, extra) ==
    { QuarantineResult(Charge(w, Cost(o)), src, reason, iid, extra, o, "written") :
        o \in Affordable(w, MoveOutcomes \cup {"raise"}) }
    \cup { QuarantineResult(Charge(w, Cost(o) + 1), src, reason, iid, extra, o, "lost") :
             o \in { x \in MoveOutcomes : w.faults + Cost(x) + 1 <= MaxFaults } }
    \cup { QuarantineResult(w, src, reason, iid, extra, o, "written") :
             o \in IF w.move = "fail" THEN {"fail"} ELSE {} }

\* maybe_quarantine without the DRY_RUN test
maybe_quarantine_Always(w, src, reason, iid, extra) ==
    quarantine_file(w, src, reason, iid, extra)

\* maybe_quarantine: nothing but a log line under DRY_RUN
maybe_quarantine(w, src, reason, iid, extra) ==
    IF cfg.DRY_RUN THEN { [w EXCEPT !.ret = NULL] }
    ELSE quarantine_file(w, src, reason, iid, extra)

(* ----------------------------------------------------------------- catalog *)
Coalesce(a, b) == IF a # NULL THEN a ELSE b

\* the UPDATE branch with canonical_path = :canonical_path instead of the COALESCE
UpsertUpdate_Overwrite(r, row, now) ==
    [ r EXCEPT
        !.taken_at          = Coalesce(r.taken_at, row.taken_at),
        !.gps_lat           = Coalesce(r.gps_lat, row.gps_lat),
        !.gps_lon           = Coalesce(r.gps_lon, row.gps_lon),
        !.content_sha256    = Coalesce(row.content_sha256, r.content_sha256),
        !.state             = IF r.state \in {"library", "quarantine", "deleted"} THEN r.state ELSE row.state,
        !.canonical_path    = row.canonical_path,
        !.quarantine_reason = IF row.state = "quarantine" THEN row.quarantine_reason ELSE NULL,
        !.updated_at        = now ]

\* the UPDATE branch with state = :state instead of the CASE
UpsertUpdate_CandidateState(r, row, now) ==
    [ r EXCEPT
        !.taken_at          = Coalesce(r.taken_at, row.taken_at),
        !.gps_lat           = Coalesce(r.gps_lat, row.gps_lat),
        !.gps_lon           = Coalesce(r.gps_lon, row.gps_lon),
        !.content_sha256    = Coalesce(row.content_sha256, r.content_sha256),
        !.state             = row.state,
        !.canonical_path    = Coalesce(row.canonical_path, r.canonical_path),
        !.quarantine_reason = IF row.state = "quarantine" THEN row.quarantine_reason ELSE NULL,
        !.updated_at        = now ]

\* the UPDATE branch of upsert_media applied to the existing row r
UpsertUpdate(r, row, now) ==
    [ r EXCEPT
        !.taken_at          = Coalesce(r.taken_at, row.taken_at),
        !.gps_lat           = Coalesce(r.gps_lat, row.gps_lat),
        !.gps_lon           = Coalesce(r.gps_lon, row.gps_lon),
        !.content_sha256    = Coalesce(row.content_sha256, r.content_sha256),
        !.state             = IF r.state \in {"library", "quarantine", "deleted"} THEN r.state ELSE row.state,
        !.canonical_path    = Coalesce(row.canonical_path, r.canonical_path),
        !.quarantine_reason = IF row.state = "quarantine" THEN row.quarantine_reason ELSE NULL,
        !.updated_at        = now ]

\* the upsert that inserts without looking for the hash
upsert_media_Insert(m, row, now) == m \cup { [row EXCEPT !.updated_at = now] }

\* upsert_media: INSERT, or on IntegrityError (id or hash_sha256 taken) UPDATE ... WHERE hash_sha256
upsert_media(m, row, now) ==
    IF \E r \in m : r.hash_sha256 = row.hash_sha256 \/ r.id = row.id
    THEN { IF r.hash_sha256 = row.hash_sha256 THEN UpsertUpdate(r, row, now) ELSE r : r \in m }
    ELSE m \cup { [row EXCEPT !.updated_at = now] }

\* SELECT id, state, canonical_path FROM media WHERE hash_sha256 = ?
RowByHash(m, h) == CHOOSE r \in m : r.hash_sha256 = h

\* insert_sighting that inserts nothing
insert_sighting_Dropped(s, media_id, full_path, source_root, iid) == s

\* the sighting written over the newest one (INSERT OR REPLACE on a reused rowid)
insert_sighting_Replace(s, media_id, full_path, source_root, iid) ==
    LET new == [media_id |-> media_id, full_path |-> full_path, source_root |-> source_root, ingest_id |-> iid]
    IN IF s = << >> THEN << new >> ELSE [s EXCEPT ![Len(s)] = new]

\* the sighting inserted twice
insert_sighting_Twice(s, media_id, full_path, source_root, iid) ==
    LET new == [media_id |-> media_id, full_path |-> full_path, source_root |-> source_root, ingest_id |-> iid]
    IN Append(Append(s, new), new)

\* insert_sighting
insert_sighting(s, media_id, full_path, source_root, iid) ==
    Append(s, [media_id |-> media_id, full_path |-> full_path, source_root |-> source_root, ingest_id |-> iid])

already_finalized(m, h) == \E r \in m : r.hash_sha256 = h /\ r.state = "library"

\* the query without its ORDER BY: any matching row
BestOf_Any(rows) == rows

\* ORDER BY CASE state WHEN 'library' THEN 0 ELSE 1 END LIMIT 1: the rows the
\* query may return (one of the library rows if any, else one of the review rows)
BestOf(rows) ==
    IF \E r \in rows : r.state = "library" THEN {r \in rows : r.state = "library"} ELSE rows

_find_canonical_by_filehash(m, h) ==
    BestOf({r \in m : r.hash_sha256 = h /\ r.state \in {"library", "review"}})

_find_canonical_by_contenthash(m, c) ==
    IF c = NULL THEN {}
    ELSE BestOf({r \in m : r.content_sha256 = c /\ r.state \in {"library", "review"}})

\* the duplicate that refreshes no timestamp
TouchVerified_Skip(m, id, now) == m

\* UPDATE media SET last_verified_at=?, updated_at=? WHERE id=?
TouchVerified(m, id, now) ==
    { IF r.id = id THEN [r EXCEPT !.last_verified_at = now, !.updated_at = now] ELSE r : r \in m }

\* the failed move that leaves the row as it was upserted
FlipToQuarantine_Keep(m, id, q_path, now) == m

\* UPDATE media SET state='quarantine', canonical_path=?, quarantine_reason='move_failed', updated_at=? WHERE id=?
FlipToQuarantine(m, id, q_path, now) ==
    { IF r.id = id
      THEN [r EXCEPT !.state = "quarantine", !.canonical_path = q_path,
                     !.quarantine_reason = "move_failed", !.updated_at = now]
      ELSE r : r \in m }

\* the UPDATE after a move that stores the path and leaves the state
MarkPlaced_PathOnly(m, id, dest, now) ==
    { IF r.id = id
      THEN [r EXCEPT !.canonical_path = dest, !.updated_at = now, !.last_verified_at = now]
      ELSE r : r \in m }

\* UPDATE media SET state='review', canonical_path=?, updated_at=?, last_verified_at=? WHERE id=?
MarkPlaced(m, id, dest, now) ==
    { IF r.id = id
      THEN [r EXCEPT !.state = "review", !.canonical_path = dest,
                     !.updated_at = now, !.last_verified_at = now]
      ELSE r : r \in m }

\* the media_row dict built by ingest_one_source
MediaRow(h, content, taken_at, meta, state, canonical_path, reason, now) ==
    [ id |-> uuid_from_hash(h), hash_sha256 |-> h, content_sha256 |-> content,
      taken_at |-> taken_at,
      gps_lat |-> IF "GPSLatitude" \in DOMAIN meta THEN meta.GPSLatitude ELSE NULL,
      gps_lon |-> IF "GPSLongitude" \in DOMAIN meta THEN meta.GPSLongitude ELSE NULL,
      state |-> state, canonical_path |-> canonical_path, quarantine_reason |-> reason,
      updated_at |-> now, last_verified_at |-> NULL ]

(* ------------------------------------------------- the per-file loop body *)
\* Each operator below maps a world w (catalog, file system, stats as the loop
\* body has left them so far) to the set of worlds the code can reach from it,
\* one per outcome of the file operations it performs. w.raised marks a world
\* in which an exception is on its way to the per-file catch-all.
Bump(w, field) == [w EXCEPT !.stats[field] = @ + 1]

\* the branch of the loop body a world went through
Tag(ws, b) == { [w EXCEPT !.branch = b] : w \in ws }

BumpQ(w, reason) == [w EXCEPT !.stats.q_counts[reason] = @ + 1]

\* conn.commit()
Commit(w) == [w EXCEPT !.durable = [media |-> w.media, sightings |-> w.sightings]]

\* stats["q_counts"][reason] += 1; maybe_quarantine(...); stats["quarantined"] += 1
CountAndQuarantine(w, src, reason, extra) ==
    { IF w1.raised THEN w1 ELSE Bump(w1, "quarantined") :
        w1 \in maybe_quarantine(BumpQ(w, reason), src, reason, ingest_id, extra) }

\* lines 874-912: the four early exits; toggle is the QUAR key
EarlyExit(w, src, toggle, reason, extra) ==
    IF cfg.QUAR[toggle] THEN CountAndQuarantine(w, src, reason, extra) ELSE {w}

Sighted(w, media_id, src) ==
    [w EXCEPT !.sightings = insert_sighting(w.sightings, media_id, PathStr(src.dir, src.name), src.dir, ingest_id)]

\* the failed unlink that leaves the source unhandled
UnlinkOrQuarantine_Leave(w, src) ==
    { [w EXCEPT !.disk = @ \ {src}, !.unlink = "ok"] }
    \cup (IF w.faults + 1 <= MaxFaults THEN { [Charge(w, 1) EXCEPT !.unlink = "fail"] } ELSE {})

\* try: p.unlink() except: quarantine as move_failed (lines 949-954)
UnlinkOrQuarantine(w, src) ==
    { [w EXCEPT !.disk = @ \ {src}, !.unlink = "ok"] }
    \cup (IF w.faults + 1 <= MaxFaults
          THEN CountAndQuarantine([Charge(w, 1) EXCEPT !.unlink = "fail"], src, "move_failed", "delete_failed")
          ELSE {})

\* the duplicate branch that applies on_review_dupe to library duplicates too
DupBranch_PolicyForAll(w0, src, canon, basis) ==
    LET reason == IF canon.state = "library" THEN "duplicate_in_library" ELSE "duplicate_in_review"
        w      == [w0 EXCEPT !.canon = canon.id, !.basis = basis, !.reason = reason]
    IN
    IF cfg.on_review_dupe = "ignore" THEN
        LET w1 == Bump(Bump(w, "updated"), "skipped_dupe")
            w2 == [w1 EXCEPT !.media = TouchVerified(w1.media, canon.id, Now)]
        IN { Commit(Sighted(w2, canon.id, src)) }
    ELSE IF cfg.on_review_dupe = "delete" THEN
        LET w1 == Sighted(Bump(w, "skipped_dupe"), canon.id, src)
        IN { IF w2.raised THEN w2 ELSE Commit(w2) :
               w2 \in IF cfg.DRY_RUN THEN {w1} ELSE UnlinkOrQuarantine(w1, src) }
    ELSE
        { IF w1.raised THEN w1 ELSE Commit(Sighted(Bump(w1, "skipped_dupe"), canon.id, src)) :
            w1 \in IF cfg.QUAR["dupes"]
                   THEN CountAndQuarantine(w, src, reason, "basis=" \o basis \o " dupe_of=" \o canon.id)
                   ELSE {w} }

\* lines 929-966 and 970-1006: the file duplicates the canonical record canon
DupBranch(w0, src, canon, basis) ==
    LET reason == IF canon.state = "library" THEN "duplicate_in_library" ELSE "duplicate_in_review"
        w      == [w0 EXCEPT !.canon = canon.id, !.basis = basis, !.reason = reason]
    IN
    IF reason = "duplicate_in_review" /\ cfg.on_review_dupe = "ignore" THEN
        LET w1 == Bump(Bump(w, "updated"), "skipped_dupe")
            w2 == [w1 EXCEPT !.media = TouchVerified(w1.media, canon.id, Now)]
        IN { Commit(Sighted(w2, canon.id, src)) }
    ELSE IF reason = "duplicate_in_review" /\ cfg.on_review_dupe = "delete" THEN
        LET w1 == Sighted(Bump(w, "skipped_dupe"), canon.id, src)
        IN { IF w2.raised THEN w2 ELSE Commit(w2) :
               w2 \in IF cfg.DRY_RUN THEN {w1} ELSE UnlinkOrQuarantine(w1, src) }
    ELSE
        { IF w1.raised THEN w1 ELSE Commit(Sighted(Bump(w1, "skipped_dupe"), canon.id, src)) :
            w1 \in IF cfg.QUAR["dupes"]
                   THEN CountAndQuarantine(w, src, reason, "basis=" \o basis \o " dupe_of=" \o canon.id)
                   ELSE {w} }

\* the row of a file without capture date recorded as a review row
MissingDateRow_Review(w1, h, content, meta) ==
    MediaRow(h, content, NULL, meta, "review", NULL, NULL, Now)

\* lines 1010-1043: no capture date
MissingDateRow(w1, h, content, meta) ==
    MediaRow(h, content, NULL, meta, "quarantine",
             IF w1.ret # NULL /\ ~cfg.DRY_RUN THEN w1.ret ELSE NULL,
             "missing_datetime", Now)

\* the missing-date branch that quarantines the file and records nothing
MissingDateBranch_NoRow(w, src, h, content, meta) ==
    { IF w1.raised THEN w1 ELSE Commit(Bump(BumpQ(w1, "missing_datetime"), "quarantined")) :
      w1 \in IF cfg.QUAR["missing_datetime"]
             THEN maybe_quarantine(w, src, "missing_datetime", ingest_id, "no capture date")
             ELSE { [w EXCEPT !.ret = NULL] } }

MissingDateBranch(w, src, h, content, meta) ==
    { IF w1.raised THEN w1
      ELSE LET w2  == [w1 EXCEPT !.media = upsert_media(w1.media, MissingDateRow(w1, h, content, meta), Now)]
               mid == RowByHash(w2.media, h).id
           IN Commit(Bump(BumpQ(Sighted(w2, mid, src), "missing_datetime"), "quarantined")) :
      w1 \in IF cfg.QUAR["missing_datetime"]
             THEN maybe_quarantine(w, src, "missing_datetime", ingest_id, "no capture date")
             ELSE { [w EXCEPT !.ret = NULL] } }

\* lines 1143-1172 after rename and copy2 have both failed
MoveFailed(w, src, mid) ==
    IF cfg.QUAR["move_failed"]
    THEN { IF w1.raised THEN w1
           ELSE Commit(Bump(BumpQ([w1 EXCEPT !.media = FlipToQuarantine(w1.media, mid, w1.ret, Now)],
                                  "move_failed"), "quarantined")) :
           w1 \in maybe_quarantine(w, src, "move_failed", ingest_id, "e1 | e2") }
    ELSE { Commit(w) }

\* lines 1174-1181: moved_ok
MoveDone(w, src, mid, dest, outcome) ==
    Commit(Bump([w EXCEPT !.disk = Moved(w.disk, src, REVIEW_ROOT, dest, outcome),
                          !.media = MarkPlaced(w.media, mid, PathStr(REVIEW_ROOT, dest), Now)],
                "moved"))

\* lines 1134-1183: dry-run plan, or rename / copy into Review and the row update
\* ("raise": dest.parent.mkdir raises)
Place(w, src, h, mid, taken_at) ==
    LET fname == canonical_name(taken_at, h, src.name.ext)
        dest  == plan_nonclobber(w.disk, REVIEW_ROOT, fname)
    IN
    IF cfg.DRY_RUN THEN { Commit(Bump(w, "moved")) }
    ELSE UNION { LET w1 == [Charge(w, Cost(o)) EXCEPT !.move = o]
                 IN IF o = "raise" THEN { [w1 EXCEPT !.raised = TRUE] }
                    ELSE IF o = "fail" THEN MoveFailed(w1, src, mid)
                    ELSE { MoveDone(w1, src, mid, dest, o) } :
                 o \in Affordable(w, MoveOutcomes \cup {"raise"}) }

\* lines 1079-1132: the row already has a canonical file on disk
LateDupBranch(w, src, mid, current_state) ==
    IF current_state = "library" THEN
        { IF w2.raised THEN w2 ELSE Commit(w2) :
            w2 \in IF cfg.QUAR["dupes"]
                   THEN CountAndQuarantine(Bump(w, "skipped_dupe"), src, "duplicate_in_library", "basis=file (late-state)")
                   ELSE { Bump(w, "skipped_dupe") } }
    ELSE IF cfg.on_review_dupe = "ignore" THEN
        { Commit([Bump(w, "updated") EXCEPT !.media = TouchVerified(w.media, mid, Now)]) }
    ELSE IF cfg.on_review_dupe = "quarantine" THEN
        { IF w1.raised THEN w1 ELSE Commit(w1) :
            w1 \in IF cfg.QUAR["dupes"]
                   THEN CountAndQuarantine(w, src, "duplicate_in_review", "basis=file (late-state)")
                   ELSE { [Bump(w, "updated") EXCEPT !.media = TouchVerified(w.media, mid, Now)] } }
    ELSE
        { IF w1.raised THEN w1 ELSE Commit(Bump(w1, "skipped_dupe")) :
            w1 \in IF cfg.DRY_RUN THEN {w} ELSE UnlinkOrQuarantine(w, src) }

\* lines 1046-1183: a candidate with a capture date that duplicates nothing
PlaceBranch(w, src, h, content, meta, taken_at) ==
    LET row == MediaRow(h, content, taken_at, meta, "review", NULL, NULL, Now)
        w1  == [w EXCEPT !.media = upsert_media(w.media, row, Now)]
        cur == RowByHash(w1.media, h)
        w2  == Sighted(w1, cur.id, src)
    IN
    IF already_finalized(w2.media, h) THEN
        { IF w4.raised THEN w4 ELSE Commit(w4) :
            w4 \in IF cfg.QUAR["dupes"]
                   THEN CountAndQuarantine(Bump(w2, "skipped_dupe"), src, "duplicate_in_library", "basis=file (late)")
                   ELSE { Bump(w2, "skipped_dupe") } }
    ELSE IF cur.state \in {"review", "library"} /\ cur.canonical_path # NULL
            /\ PathExists(w2.disk, cur.canonical_path)
    THEN LateDupBranch(w2, src, cur.id, cur.state)
    ELSE Place(w2, src, h, cur.id, taken_at)

\* Pipeline without the duplicate lookups and the late finalized test
Pipeline_Unguarded(w, src) ==
    LET blob    == Blobs[src.blob]
        h       == blob.hash
        content == IF src.name.ext \in IMAGE_EXT THEN blob.pixels ELSE NULL
        taken   == resolve_taken_at(blob.meta, src.name, cfg.ALLOW_FILENAME_DATES, cfg.date_keys)
        row     == MediaRow(h, content, taken, blob.meta, "review", NULL, NULL, Now)
        w1      == [w EXCEPT !.media = upsert_media(w.media, row, Now)]
        cur     == RowByHash(w1.media, h)
    IN
    IF taken = NULL THEN Tag(MissingDateBranch(w, src, h, content, blob.meta), "missing_datetime")
    ELSE Tag(Place(Sighted(w1, cur.id, src), src, h, cur.id, taken), "place")

\* Pipeline with the capture date resolved before the duplicate lookups
Pipeline_DateFirst(w, src) ==
    LET blob    == Blobs[src.blob]
        h       == blob.hash
        content == IF src.name.ext \in IMAGE_EXT THEN blob.pixels ELSE NULL
        taken   == resolve_taken_at(blob.meta, src.name, cfg.ALLOW_FILENAME_DATES, cfg.date_keys)
        byFile  == _find_canonical_by_filehash(w.media, h)
        byPix   == _find_canonical_by_contenthash(w.media, content)
    IN
    IF taken = NULL THEN Tag(MissingDateBranch(w, src, h, content, blob.meta), "missing_datetime")
    ELSE IF byFile # {} THEN Tag(UNION { DupBranch(w, src, canon, "file") : canon \in byFile }, "duplicate_file")
    ELSE IF byPix # {} THEN Tag(UNION { DupBranch(w, src, canon, "content") : canon \in byPix }, "duplicate_content")
    ELSE Tag(PlaceBranch(w, src, h, content, blob.meta, taken), "place")

\* lines 914-1183 for a file that passed the early exits and was hashed
Pipeline(w, src) ==
    LET blob    == Blobs[src.blob]
        h       == blob.hash
        content == IF src.name.ext \in IMAGE_EXT THEN blob.pixels ELSE NULL
        taken   == resolve_taken_at(blob.meta, src.name, cfg.ALLOW_FILENAME_DATES, cfg.date_keys)
        byFile  == _find_canonical_by_filehash(w.media, h)
        byPix   == _find_canonical_by_contenthash(w.media, content)
    IN
    IF byFile # {} THEN Tag(UNION { DupBranch(w, src, canon, "file") : canon \in byFile }, "duplicate_file")
    ELSE IF byPix # {} THEN Tag(UNION { DupBranch(w, src, canon, "content") : canon \in byPix }, "duplicate_content")
    ELSE IF taken = ValueError THEN { [w EXCEPT !.raised = TRUE, !.branch = "date_error"] }
    ELSE IF taken = NULL THEN Tag(MissingDateBranch(w, src, h, content, blob.meta), "missing_datetime")
    ELSE Tag(PlaceBranch(w, src, h, content, blob.meta, taken), "place")

\* p.stat() raised (lines 900-905)
StatFailed(w, src) ==
    IF w.faults + 1 <= MaxFaults
    THEN Tag(EarlyExit(Charge(w, 1), src, "stat_error", "stat_error", "OSError"), "stat_error")
    ELSE {}

\* sha256_file(p) raised (line 914)
HashFailed(w) ==
    IF w.faults + 1 <= MaxFaults THEN { [Charge(w, 1) EXCEPT !.raised = TRUE, !.branch = "hash_error"] } ELSE {}

\* the body of "for name in files" (lines 871-1188) on world w
FileBody(w, src) ==
    IF IsJunk(src.name) THEN
        Tag(EarlyExit(w, src, "junk", "junk", IF src.name.pre = "._" THEN "appledouble" ELSE "system_file"), "junk")
    ELSE IF ~is_media_candidate(src.name) THEN
        Tag(EarlyExit(w, src, "unsupported_ext", "unsupported_ext", src.name.ext), "unsupported_ext")
    ELSE
        LET w1 == Bump(w, "scanned")
        IN StatFailed(w1, src)
           \cup (IF Blobs[src.blob].size = 0
                 THEN Tag(EarlyExit(w1, src, "zero_bytes", "zero_bytes", NULL), "zero_bytes")
                 ELSE HashFailed(w1) \cup Pipeline(w1, src))

(* ------------------------------------------------------------ configuration *)
\* pixarr.toml without any setting: main's defaults
DefaultToml ==
    [ on_review_dupe |-> "quarantine", allow_file_dates |-> FALSE, QUAR |-> [k \in QuarKeys |-> TRUE] ]

Overrides(t) ==
    Cardinality({k \in QuarKeys : ~t.QUAR[k]})
    + (IF t.on_review_dupe # DefaultToml.on_review_dupe THEN 1 ELSE 0)
    + (IF t.allow_file_dates THEN 1 ELSE 0)

\* pixarr.toml, a static document: the settings main() reads
TomlChoices ==
    { t \in [ on_review_dupe : Policies, allow_file_dates : BOOLEAN, QUAR : [QuarKeys -> BOOLEAN] ] :
        Overrides(t) <= MaxOverrides }

\* the globals main() sets from pixarr.toml and from the flags --write and
\* --allow-filename-dates of one invocation
Config(t, write, allow_filename_dates) ==
    [ DRY_RUN |-> ~write, on_review_dupe |-> t.on_review_dupe,
      ALLOW_FILENAME_DATES |-> allow_filename_dates,
      date_keys |-> DateKeys(t.allow_file_dates), QUAR |-> t.QUAR ]

\* the module-level defaults before main() runs
DefaultConfig ==
    [ DRY_RUN |-> TRUE, on_review_dupe |-> "quarantine", ALLOW_FILENAME_DATES |-> FALSE,
      date_keys |-> BASE_DATE_KEYS, QUAR |-> [k \in QuarKeys |-> TRUE] ]

(* ------------------------------------------------- the iCloud sync endpoint *)
Requests == 1..MaxRequests

\* _DEFAULTS["icloud"]: disabled, no apple_id, recent = 0
IcloudDefaults == [ enabled |-> FALSE, apple_id |-> "", recent |-> 0 ]

\* the [icloud] sections of pixarr.toml as _IcloudSettings holds them
IcloudChoices == [ enabled : BOOLEAN, apple_id : {"", "me@example.com"}, recent : {0, 5} ]

\* build_icloudpd_cmd: the argv, or the ValueError raised when sync is disabled
\* or apple_id is missing
build_icloudpd_cmd(c) ==
    IF ~c.enabled THEN [ raised |-> "ValueError", cmd |-> << >> ]
    ELSE IF c.apple_id = "" THEN [ raised |-> "ValueError", cmd |-> << >> ]
    ELSE [ raised |-> NULL,
           cmd |-> << "icloudpd", "--username", c.apple_id >>
                   \o (IF c.recent > 0 THEN << "--recent", ToString(c.recent) >> ELSE << >>) ]

\* asyncio.create_subprocess_exec: the child is started, or the exec raises
\* (icloudpd is not installed, fork fails)
ExecOutcomes == {"started", "OSError"}

\* the return codes of icloudpd
ExitCodes == {0, 1}

NoReply == [ status |-> NULL, exit_code |-> NULL, cmd |-> << >> ]

\* a request that has not reached the endpoint yet
NewRequest == [ at |-> "new", reply |-> NoReply, returncode |-> NULL ]

Replied(status, exit_code, cmd) ==
    [ at |-> "returned", reply |-> [ status |-> status, exit_code |-> exit_code, cmd |-> cmd ], returncode |-> exit_code ]

\* the API process after import: settings read, lock free, no request, no child
SyncIdle(c) ==
    /\ ICLOUD = c
    /\ _icloud_sync_lock = FALSE
    /\ requests = [r \in Requests |-> NewRequest]
    /\ procs = {}

\* the guard that never sees a sync in flight
locked_Never(l) == FALSE

\* _icloud_sync_lock.locked()
locked(l) == l

\* api_sync_icloud from its first line to its first suspension. The event loop
\* runs it in one piece: locked() and the acquire of "async with" (which does
\* not suspend on a free lock) are not interleaved with another request.
\*   busy:    the lock is held, return at once;
\*   error:   build_icloudpd_cmd raised, return inside "async with" (lock released);
\*   OSError: create_subprocess_exec raised, the exception leaves "async with"
\*            (lock released) and the framework answers 500;
\*   started: the child runs, the coroutine waits in proc.communicate() with the lock held.
\* "async with" on a held lock would suspend in acquire() ("queued").
SyncArrive(r) ==
    /\ requests[r].at = "new"
    /\ IF locked(_icloud_sync_lock)
       THEN /\ requests' = [requests EXCEPT ![r] = Replied("busy", NULL, << >>)]
            /\ UNCHANGED << _icloud_sync_lock, procs >>
       ELSE IF _icloud_sync_lock
       THEN /\ requests' = [requests EXCEPT ![r].at = "queued"]
            /\ UNCHANGED << _icloud_sync_lock, procs >>
       ELSE LET built == build_icloudpd_cmd(ICLOUD) IN
            IF built.raised # NULL
            THEN /\ requests' = [requests EXCEPT ![r] = Replied("error", NULL, << >>)]
                 /\ UNCHANGED << _icloud_sync_lock, procs >>
            ELSE \E o \in ExecOutcomes :
                    IF o = "OSError"
                    THEN /\ requests' = [requests EXCEPT ![r] = Replied("500", NULL, << >>)]
                         /\ UNCHANGED << _icloud_sync_lock, procs >>
                    ELSE /\ requests' = [requests EXCEPT ![r].at = "communicate"]
                         /\ _icloud_sync_lock' = TRUE
                         /\ procs' = procs \cup {r}
    /\ UNCHANGED ICLOUD
    /\ UNCHANGED ingestVars

\* the icloudpd child of request r ends with a return code
ChildExit(r, code) ==
    /\ r \in procs
    /\ procs' = procs \ {r}
    /\ requests' = [requests EXCEPT ![r].returncode = code]
    /\ UNCHANGED << ICLOUD, _icloud_sync_lock >>
    /\ UNCHANGED ingestVars

\* proc.communicate() returns: the response is built and "async with" releases the lock
SyncReturn(r) ==
    /\ requests[r].at = "communicate"
    /\ r \notin procs
    /\ requests' = [requests EXCEPT ![r] = Replied("done", requests[r].returncode, build_icloudpd_cmd(ICLOUD).cmd)]
    /\ _icloud_sync_lock' = FALSE
    /\ UNCHANGED << ICLOUD, procs >>
    /\ UNCHANGED ingestVars

NextSync ==
    \/ \E r \in Requests : SyncArrive(r)
    \/ \E r \in Requests, code \in ExitCodes : ChildExit(r, code)
    \/ \E r \in Requests : SyncReturn(r)

(* ------------------------------------------------------ the initial catalog *)
PreRow(b, state, canonical_path, reason) ==
    [ MediaRow(Blobs[b].hash, Blobs[b].pixels,
               extract_taken_at_exif_only(Blobs[b].meta, BASE_DATE_KEYS),
               Blobs[b].meta, state, canonical_path, reason, "t0")
      EXCEPT !.last_verified_at = IF state \in {"review", "library"} THEN "t0" ELSE NULL ]

NameA == canonical_name(T1, Blobs["A"].hash, ".jpg")

QFile(reason, n, b) == [dir |-> QuarantineDir(reason), name |-> n, blob |-> b]

\* Catalog rows (with their files and sidecars) left by earlier ingests, by the
\* human-mediated promotion to the library, or by a deletion.
PreExisting ==
    { [ row |-> PreRow("A", "review", PathStr(REVIEW_ROOT, NameA), NULL),
        files |-> {[dir |-> REVIEW_ROOT, name |-> NameA, blob |-> "A"]}, sidecar |-> NULL ],
      [ row |-> PreRow("A", "review", PathStr(REVIEW_ROOT, NameA), NULL),
        files |-> {}, sidecar |-> NULL ],
      [ row |-> PreRow("A", "library", PathStr(LIBRARY_ROOT, NameA), NULL),
        files |-> {[dir |-> LIBRARY_ROOT, name |-> NameA, blob |-> "A"]}, sidecar |-> NULL ],
      [ row |-> PreRow("A", "quarantine", PathStr(QuarantineDir("move_failed"), Name("", "IMG_001", ".jpg")), "move_failed"),
        files |-> {QFile("move_failed", Name("", "IMG_001", ".jpg"), "A")}, sidecar |-> "move_failed" ],
      [ row |-> PreRow("A", "deleted", NULL, NULL),
        files |-> {}, sidecar |-> NULL ],
      [ row |-> PreRow("C", "deleted", NULL, NULL),
        files |-> {}, sidecar |-> NULL ],
      [ row |-> PreRow("C", "quarantine", PathStr(QuarantineDir("missing_datetime"), Name("", "clip", ".jpg")), "missing_datetime"),
        files |-> {QFile("missing_datetime", Name("", "clip", ".jpg"), "C")}, sidecar |-> "missing_datetime" ],
      \* recorded while allow_file_dates was set (taken_at from ModifyDate), its move into Review failed
      [ row |-> [ PreRow("C", "quarantine", PathStr(QuarantineDir("move_failed"), Name("", "clip", ".jpg")), "move_failed")
                  EXCEPT !.taken_at = T2 ],
        files |-> {QFile("move_failed", Name("", "clip", ".jpg"), "C")}, sidecar |-> "move_failed" ] }

PreSidecars(pre) ==
    LET withSc == {x \in pre : x.sidecar # NULL}
        f(x)   == CHOOSE e \in x.files : TRUE
    IN [ q \in { SidecarPath(f(x).dir, f(x).name) : x \in withSc } |->
           LET x == CHOOSE y \in withSc : SidecarPath(f(y).dir, f(y).name) = q
           IN [ reason |-> x.sidecar, ingest_id |-> 0,
                original_path |-> PathStr("Staging/pc", f(x).name),
                quarantined_to |-> PathStr(f(x).dir, f(x).name),
                timestamp |-> "t0", extra |-> NULL ] ]

\* the state before the first invocation: staged files, the catalog pre with its
\* files and sidecars, pixarr.toml
InitialState(staged, pre, t) ==
        /\ disk = { [dir |-> f.src, name |-> f.name, blob |-> f.blob] : f \in staged }
                    \cup UNION { x.files : x \in pre }
        /\ sidecars = PreSidecars(pre)
        /\ media = { x.row : x \in pre }
        /\ sightings = << >>
        /\ ingests = << >>
        /\ durable = [media |-> { x.row : x \in pre }, sightings |-> << >>]
        /\ faults = 0
        /\ toml = t
        /\ pc = "idle"
        /\ cfg = DefaultConfig
        /\ srcIdx = 1
        /\ ingest_id = 0
        /\ todo = {}
        /\ stats = ZeroStats
        /\ decision = NoDecision
        /\ batch = NoBatch
        /\ last = [r \in {"Staging/pc", "Staging/other"} |-> NoScan]
        /\ SyncIdle(IcloudDefaults)

Init ==
    \E staged \in SUBSET StagedUniverse, pre \in SUBSET PreExisting, t \in TomlChoices :
        /\ Cardinality(staged) \in 1..MaxStaged
        /\ Cardinality(pre) <= MaxPreRows
        /\ \A x, y \in pre : x.row.hash_sha256 = y.row.hash_sha256 => x = y
        /\ InitialState(staged, pre, t)

\* The files staged in the runs that exercise the duplicate lookups: a picture,
\* a re-encoded copy of it, a third file with the same pixels, and a video (no
\* content hash is computed for it).
DedupStaged ==
    { [src |-> "Staging/pc", name |-> Name("", "IMG_001", ".jpg"), blob |-> "A"],
      [src |-> "Staging/pc", name |-> Name("", "edited", ".jpg"),  blob |-> "B"],
      [src |-> "Staging/pc", name |-> Name("", "scan", ".jpg"),    blob |-> "E"],
      [src |-> "Staging/pc", name |-> Name("", "scan", ".mov"),    blob |-> "E"] }

\* a row for the picture b in state st; the canonical file of a review or
\* library row is in place
DedupRow(b, st) ==
    LET root == IF st = "library" THEN LIBRARY_ROOT ELSE REVIEW_ROOT
        n    == canonical_name(extract_taken_at_exif_only(Blobs[b].meta, BASE_DATE_KEYS), Blobs[b].hash, ".jpg")
        kept == st \in {"library", "review"}
    IN [ row |-> PreRow(b, st, IF kept THEN PathStr(root, n) ELSE NULL,
                        IF st = "quarantine" THEN "move_failed" ELSE NULL),
         files |-> IF kept THEN {[dir |-> root, name |-> n, blob |-> b]} ELSE {},
         sidecar |-> NULL ]

\* catalog rows with the same pixels and different file hashes, in any state
DedupRows == { DedupRow(b, st) : b \in {"A", "B"}, st \in States }

\* the settings that matter to the duplicate branches: on_review_dupe
DedupToml == { t \in TomlChoices : t.QUAR = DefaultToml.QUAR /\ ~t.allow_file_dates }

\* The files staged in the runs that exercise the capture-time resolver: each
\* metadata document under a name without a date and under a name with one.
ResolveStaged ==
    { [src |-> "Staging/pc", name |-> Name("", stem, ".jpg"), blob |-> b] :
        stem \in {"IMG_9", "PHOTO-2019-01-01-01-02-03", "PHOTO-2024-13-10-20-08-42"},
        b \in {"R1", "R2", "R3", "R4", "R5", "R6"} }

\* the settings that matter to the resolver: allow_file_dates
ResolveToml ==
    { t \in TomlChoices : t.QUAR = DefaultToml.QUAR /\ t.on_review_dupe = DefaultToml.on_review_dupe }

InitResolve ==
    \E f \in ResolveStaged, t \in ResolveToml : InitialState({f}, {}, t)

\* base_with_name(f"{stem}_{i}{ext}")
Suffixed(n, i) == [n EXCEPT !.stem = @ \o "_" \o ToString(i)]

\* The files staged in the runs that exercise plan_nonclobber, each with the
\* directory and name it is headed for: a dated picture (Review, or
\* Quarantine/move_failed under its own name) and a text file (Quarantine/unsupported_ext).
ClobberStaged ==
    { [ file |-> [src |-> "Staging/pc", name |-> Name("", "IMG_001", ".jpg"), blob |-> "A"],
        dir |-> REVIEW_ROOT, target |-> NameA, reason |-> "move_failed" ],
      [ file |-> [src |-> "Staging/pc", name |-> Name("", "notes", ".txt"), blob |-> "C"],
        dir |-> QuarantineDir("unsupported_ext"), target |-> Name("", "notes", ".txt"),
        reason |-> "unsupported_ext" ] }

\* the sidecar an earlier quarantine_file left when its move of a file of that name failed
FailedNote(c) == SidecarPath(QuarantineDir(c.reason), [c.file.name EXCEPT !.ext = @ \o ".failed"])

InitClobber ==
    \E c \in ClobberStaged, plain \in BOOLEAN, second \in BOOLEAN, note \in BOOLEAN, t \in DedupToml :
        /\ disk = { [dir |-> c.file.src, name |-> c.file.name, blob |-> c.file.blob] }
                     \cup (IF plain THEN { [dir |-> c.dir, name |-> c.target, blob |-> "D"] } ELSE {})
                     \cup (IF second THEN { [dir |-> c.dir, name |-> Suffixed(c.target, 2), blob |-> "D"] } ELSE {})
        /\ sidecars = IF note
                      THEN FailedNote(c) :> [ reason |-> c.reason, ingest_id |-> 0,
                                              original_path |-> PathStr("Staging/other", c.file.name),
                                              quarantined_to |-> NULL, timestamp |-> "t0", extra |-> NULL ]
                      ELSE PreSidecars({})
        /\ media = {}
        /\ sightings = << >>
        /\ ingests = << >>
        /\ durable = [media |-> {}, sightings |-> << >>]
        /\ faults = 0
        /\ toml = t
        /\ pc = "idle"
        /\ cfg = DefaultConfig
        /\ srcIdx = 1
        /\ ingest_id = 0
        /\ todo = {}
        /\ stats = ZeroStats
        /\ decision = NoDecision
        /\ batch = NoBatch
        /\ last = [r \in {"Staging/pc", "Staging/other"} |-> NoScan]
        /\ SyncIdle(IcloudDefaults)

InitDedup ==
    \E f \in DedupStaged, pre \in SUBSET DedupRows, t \in DedupToml :
        /\ Cardinality(pre) <= MaxDedupRows
        /\ \A x, y \in pre : x.row.hash_sha256 = y.row.hash_sha256 => x = y
        /\ InitialState({f}, pre, t)

\* the settings in which a quarantine toggle is switched off under each of the
\* duplicate policies
ToggleToml ==
    { t \in [ on_review_dupe : Policies, allow_file_dates : {FALSE}, QUAR : [QuarKeys -> BOOLEAN] ] :
        Cardinality({k \in QuarKeys : ~t.QUAR[k]}) <= MaxOverrides }

InitToggles ==
    \E f \in StagedUniverse, pre \in SUBSET PreExisting, t \in ToggleToml :
        /\ Cardinality(pre) <= MaxPreRows
        /\ InitialState({f}, pre, t)

(* ------------------------------------------------------------------ actions *)
\* main() up to the loop over the selected sources
StartMain(write, allow_filename_dates) ==
    /\ pc = "idle"
    /\ Len(ingests) + Cardinality({i \in DOMAIN SelectedSources : RootExists(SelectedSources[i])}) <= MaxBatches
    /\ cfg' = Config(toml, write, allow_filename_dates)
    /\ pc' = "main"
    /\ srcIdx' = 1
    /\ UNCHANGED << disk, sidecars, media, sightings, ingests, durable, faults, toml, ingest_id, todo, stats, decision, batch, last >>
    /\ UNCHANGED syncVars

\* ingest_one_source, lines 854-856: the root does not exist
SkipSource ==
    /\ pc = "main"
    /\ srcIdx <= Len(SelectedSources)
    /\ ~RootExists(SelectedSources[srcIdx])
    /\ srcIdx' = srcIdx + 1
    /\ stats' = ZeroStats
    /\ UNCHANGED << disk, sidecars, media, sightings, ingests, durable, faults, toml, pc, cfg, ingest_id, todo, decision, batch, last >>
    /\ UNCHANGED syncVars

\* begin_ingest (with its commit) and the listing of the root by os.walk
BeginIngest ==
    /\ pc = "main"
    /\ srcIdx <= Len(SelectedSources)
    /\ RootExists(SelectedSources[srcIdx])
    /\ ingests' = Append(ingests, [source |-> SelectedSources[srcIdx], started_at |-> "t" \o ToString(Len(ingests) + 1), finished_at |-> NULL])
    /\ ingest_id' = Len(ingests) + 1
    /\ durable' = [media |-> media, sightings |-> sightings]
    /\ stats' = ZeroStats
    /\ todo' = { e \in disk : e.dir = SelectedSources[srcIdx] }
    /\ batch' = [ files |-> todo', hashes |-> { r.hash_sha256 : r \in media }, nsight |-> Len(sightings),
                  rerun |-> LET prev == last[SelectedSources[srcIdx]]
                            IN prev.clean /\ prev.files = todo' /\ prev.dry = cfg.DRY_RUN
                               /\ prev.fn = cfg.ALLOW_FILENAME_DATES ]
    /\ pc' = "walk"
    /\ UNCHANGED << disk, sidecars, media, sightings, faults, toml, cfg, srcIdx, decision, last >>
    /\ UNCHANGED syncVars

World ==
    [ media |-> media, sightings |-> sightings, disk |-> disk, sidecars |-> sidecars,
      stats |-> stats, durable |-> durable, faults |-> faults, raised |-> FALSE, ret |-> NULL,
      branch |-> NULL, canon |-> NULL, basis |-> NULL, reason |-> NULL, move |-> NULL,
      qmove |-> NULL, unlink |-> NULL, sidecar |-> NULL ]

\* the loop body whose exception ends the walk instead of the iteration
ProcessFile_Abort(src) ==
    /\ pc = "walk"
    /\ src \in todo
    /\ \E w \in FileBody(World, src) :
           /\ media' = w.media
           /\ sightings' = w.sightings
           /\ disk' = w.disk
           /\ sidecars' = w.sidecars
           /\ durable' = w.durable
           /\ faults' = w.faults
           /\ stats' = IF w.raised THEN [w.stats EXCEPT !.errors = @ + 1] ELSE w.stats
           /\ decision' = [ file |-> PathStr(src.dir, src.name), hash |-> Blobs[src.blob].hash,
                            content |-> IF src.name.ext \in IMAGE_EXT THEN Blobs[src.blob].pixels ELSE NULL,
                            branch |-> w.branch, raised |-> w.raised,
                            canon |-> w.canon, basis |-> w.basis, reason |-> w.reason,
                            move |-> w.move, qmove |-> w.qmove, unlink |-> w.unlink,
                            sidecar |-> w.sidecar ]
           /\ todo' = IF w.raised THEN {} ELSE todo \ {src}
    /\ UNCHANGED << ingests, toml, pc, cfg, srcIdx, ingest_id, batch, last >>
    /\ UNCHANGED syncVars

\* one iteration of "for name in files", with the per-file catch-all
ProcessFile(src) ==
    /\ pc = "walk"
    /\ src \in todo
    /\ \E w \in FileBody(World, src) :
           /\ media' = w.media
           /\ sightings' = w.sightings
           /\ disk' = w.disk
           /\ sidecars' = w.sidecars
           /\ durable' = w.durable
           /\ faults' = w.faults
           /\ stats' = IF w.raised THEN [w.stats EXCEPT !.errors = @ + 1] ELSE w.stats
           /\ decision' = [ file |-> PathStr(src.dir, src.name), hash |-> Blobs[src.blob].hash,
                            content |-> IF src.name.ext \in IMAGE_EXT THEN Blobs[src.blob].pixels ELSE NULL,
                            branch |-> w.branch, raised |-> w.raised,
                            canon |-> w.canon, basis |-> w.basis, reason |-> w.reason,
                            move |-> w.move, qmove |-> w.qmove, unlink |-> w.unlink,
                            sidecar |-> w.sidecar ]
    /\ todo' = todo \ {src}
    /\ UNCHANGED << ingests, toml, pc, cfg, srcIdx, ingest_id, batch, last >>
    /\ UNCHANGED syncVars

\* finish_ingest: UPDATE ingests SET finished_at, then commit
finish_ingest ==
    /\ ingests' = [ingests EXCEPT ![ingest_id].finished_at = Now]
    /\ durable' = [media |-> media, sightings |-> sightings]

\* the walk is exhausted: the finally clause, then return stats
FinishIngest ==
    /\ pc = "walk"
    /\ todo = {}
    /\ finish_ingest
    /\ pc' = "main"
    /\ srcIdx' = srcIdx + 1
    /\ last' = [last EXCEPT ![SelectedSources[srcIdx]] =
                   [ files |-> batch.files, dry |-> cfg.DRY_RUN, fn |-> cfg.ALLOW_FILENAME_DATES,
                     clean |-> stats.errors = 0 ]]
    /\ decision' = NoDecision
    /\ batch' = NoBatch
    /\ UNCHANGED << disk, sidecars, media, sightings, faults, toml, cfg, ingest_id, todo, stats >>
    /\ UNCHANGED syncVars

\* the process is gone: its globals, locals and connection with it
ProcessExit ==
    /\ pc' = "idle"
    /\ cfg' = DefaultConfig
    /\ srcIdx' = 1
    /\ ingest_id' = 0
    /\ todo' = {}
    /\ stats' = ZeroStats
    /\ decision' = NoDecision
    /\ batch' = NoBatch

\* the interrupt without the finally clause
Interrupt_NoFinally ==
    /\ pc = "walk"
    /\ todo # {}
    /\ faults < MaxFaults
    /\ faults' = faults + 1
    /\ ProcessExit
    /\ last' = [last EXCEPT ![SelectedSources[srcIdx]] = NoScan]
    /\ UNCHANGED << disk, sidecars, media, sightings, ingests, durable, toml >>
    /\ UNCHANGED syncVars

\* a BaseException (KeyboardInterrupt) inside the walk: the finally clause runs,
\* the exception leaves ingest_one_source and ends main()
Interrupt ==
    /\ pc = "walk"
    /\ todo # {}
    /\ faults < MaxFaults
    /\ faults' = faults + 1
    /\ finish_ingest
    /\ ProcessExit
    /\ last' = [last EXCEPT ![SelectedSources[srcIdx]] = NoScan]
    /\ UNCHANGED << disk, sidecars, media, sightings, toml >>
    /\ UNCHANGED syncVars

\* main() after the loop: conn.close() and the summary
EndMain ==
    /\ pc = "main"
    /\ srcIdx > Len(SelectedSources)
    /\ ProcessExit
    /\ UNCHANGED << disk, sidecars, media, sightings, ingests, durable, faults, toml, last >>
    /\ UNCHANGED syncVars

Next ==
    \/ \E write \in BOOLEAN, allow_filename_dates \in BOOLEAN : StartMain(write, allow_filename_dates)
    \/ SkipSource
    \/ BeginIngest
    \/ \E src \in todo : ProcessFile(src)
    \/ FinishIngest
    \/ Interrupt
    \/ EndMain

Spec == Init /\ [][Next]_vars

\* the same program started on the catalogs that exercise the duplicate lookups
SpecDedup == InitDedup /\ [][Next]_vars

\* the same program started on one file of ResolveStaged and an empty catalog
SpecResolve == InitResolve /\ [][Next]_vars

\* the same program started with files and failure notes already lying in
\* Review and Quarantine under the names it is about to choose
SpecClobber == InitClobber /\ [][Next]_vars

\* the same program started with one staged file under the settings of ToggleToml
SpecToggles == InitToggles /\ [][Next]_vars

\* the API process under each [icloud] section, with no ingest running
InitSync ==
    \E c \in IcloudChoices :
        /\ disk = {} /\ sidecars = PreSidecars({}) /\ media = {} /\ sightings = << >>
        /\ ingests = << >> /\ durable = [media |-> {}, sightings |-> << >>]
        /\ faults = 0 /\ toml = DefaultToml /\ pc = "idle" /\ cfg = DefaultConfig
        /\ srcIdx = 1 /\ ingest_id = 0 /\ todo = {} /\ stats = ZeroStats
        /\ decision = NoDecision /\ batch = NoBatch
        /\ last = [r \in {"Staging/pc", "Staging/other"} |-> NoScan]
        /\ SyncIdle(c)

SpecSync == InitSync /\ [][NextSync]_vars

(* ------------------------------------------------------------------ claims *)
\* the step is one iteration of the loop body
FileStep == pc = "walk" /\ todo' # todo

\* the branches in which a file was accepted: it passed the early exits and was hashed
AcceptedBranches == {"duplicate_file", "duplicate_content", "missing_datetime", "place"}

RowsOfHash(h) == { r \in media : r.hash_sha256 = h }

SightedAs(path, id) ==
    \E i \in DOMAIN sightings : sightings[i].full_path = path /\ sightings[i].media_id = id

KeepsState(st) ==
    \A r \in media : r.state = st => \E r2 \in media' : r2.id = r.id /\ r2.state = st

\* C1: no step of ingest takes a media row out of state 'library': a row that is
\* 'library' before a step is 'library' after it.
C1_LibraryStays == [][KeepsState("library")]_vars

\* a file whose hash is that of a library row was processed in write mode and
\* its sighting refers to that row
C1_Witness ==
    /\ pc = "walk" /\ ~cfg.DRY_RUN
    /\ decision.branch = "duplicate_file" /\ ~decision.raised
    /\ \E r \in media : /\ r.state = "library" /\ r.hash_sha256 = decision.hash
                        /\ SightedAs(decision.file, r.id)

\* C2: a row in state 'deleted' is still 'deleted' after any step of ingest.
C2_DeletedStays == [][KeepsState("deleted")]_vars

\* C3: a row in state 'quarantine' is still 'quarantine' after any step of
\* ingest, and no file with its hash is put into Review by the step.
C3_QuarantineStays ==
    [][ /\ KeepsState("quarantine")
        /\ \A r \in media : r.state = "quarantine" =>
             \A e \in disk' \ disk : e.dir = REVIEW_ROOT => Blobs[e.blob].hash # r.hash_sha256 ]_vars

\* C4: every media row whose state is not 'quarantine' has quarantine_reason NULL.
C4_ReasonOnlyInQuarantine ==
    \A r \in media : r.state # "quarantine" => r.quarantine_reason = NULL

\* C5: every media row whose state is 'quarantine' has a quarantine_reason.
C5_QuarantineHasReason ==
    \A r \in media : r.state = "quarantine" => r.quarantine_reason # NULL

\* the files of a listing that pass the early exits
Accepted(files) ==
    { f \in files : ~IsJunk(f.name) /\ is_media_candidate(f.name) /\ Blobs[f.blob].size > 0 }

\* C6: at the end of a scan of a root whose previous scan ran to its end over the
\* same files with the same settings, no fault having occurred so far: no media
\* row is new, stats.moved is 0 and the sightings grew by the number of accepted
\* files.
C6_RerunIdempotent ==
    (pc = "walk" /\ todo = {} /\ batch.rerun /\ faults = 0)
    => /\ { r.hash_sha256 : r \in media } = batch.hashes
       /\ stats.moved = 0
       /\ Len(sightings) = batch.nsight + Cardinality(Accepted(batch.files))

C8_DryRunNoFileChange ==
    [][(pc = "walk" /\ cfg.DRY_RUN) => (disk' = disk /\ sidecars' = sidecars)]_vars

\* a dry-run scan has planned a move into Review and a quarantine
C8_Witness ==
    /\ pc = "walk" /\ cfg.DRY_RUN /\ todo = {}
    /\ stats.moved >= 1 /\ stats.quarantined >= 1

\* C9 as stated: a dry-run iteration over a file with no capture date leaves the
\* media table unchanged.
C9_DryRunNoQuarantineRow ==
    [][(FileStep /\ cfg.DRY_RUN /\ decision'.branch = "missing_datetime") => media' = media]_vars

\* C9 amended: an iteration over a file with no capture date records a
\* quarantine location only when the file was placed in write mode: a row whose
\* canonical_path is new after the step names a file the step has put there, in
\* write mode; under dry-run every row keeps its canonical_path and a new row
\* has none.
C9_PathOnlyWhenPlaced ==
    [][(FileStep /\ decision'.branch = "missing_datetime") =>
         \A r2 \in media' :
            LET old == { r \in media : r.id = r2.id }
                was == IF old = {} THEN NULL ELSE (CHOOSE r \in old : TRUE).canonical_path
            IN r2.canonical_path # was =>
                 /\ ~cfg.DRY_RUN
                 /\ PathExists(disk', r2.canonical_path)
                 /\ ~PathExists(disk, r2.canonical_path) ]_vars

\* a dry-run iteration over a file with no capture date has updated the row of a
\* quarantined record that has a canonical_path
C9_Witness ==
    /\ pc = "walk" /\ cfg.DRY_RUN
    /\ decision.branch = "missing_datetime" /\ ~decision.raised
    /\ \E r \in RowsOfHash(decision.hash) : r.canonical_path # NULL /\ r.updated_at = Now

Open == { i \in DOMAIN ingests : ingests[i].finished_at = NULL }

\* the sources of the scans the running main() has begun, in order
BegunSources ==
    SelectSeq(SubSeq(SelectedSources, 1, srcIdx - 1), RootExists)
    \o (IF pc = "walk" THEN << SelectedSources[srcIdx] >> ELSE << >>)

\* C10: only the scan in progress has an open ingests row (none is open between
\* scans or after main() has ended, also after an interrupt), and the rows of
\* the running main() follow the order of the selected sources.
C10_Bracketed ==
    /\ Open = IF pc = "walk" THEN {ingest_id} ELSE {}
    /\ pc \in {"main", "walk"} =>
         /\ Len(ingests) >= Len(BegunSources)
         /\ \A i \in 1..Len(BegunSources) :
              ingests[Len(ingests) - Len(BegunSources) + i].source = BegunSources[i]

\* main() was interrupted in its first scan after a file had been sighted
C10_Witness ==
    /\ pc = "idle" /\ Len(ingests) = 1
    /\ ingests[1].finished_at # NULL
    /\ Len(sightings) >= 1

\* C11: one bad file cannot abort the batch. When the loop body raises for a
\* file, the walk goes on (the scan is still running, its batch still open, and
\* exactly that file has left the files to do); every file still to do can be
\* handed to the loop body; and a scan that returns to main() has no file left
\* to do and has stamped its batch as finished.
C11_BadFileDoesNotAbort ==
    [][ /\ (FileStep /\ decision'.raised) =>
              /\ pc' = "walk"
              /\ ingests' = ingests
              /\ \E src \in todo : PathStr(src.dir, src.name) = decision'.file /\ todo' = todo \ {src}
        /\ (pc = "walk") => \A src \in todo : FileBody(World, src) # {}
        /\ (pc = "walk" /\ pc' = "main") =>
              (todo = {} /\ ingests'[ingest_id].finished_at # NULL)
      ]_vars

\* a file was accepted and committed after an earlier file of the same scan had raised
C11_Witness ==
    /\ pc = "walk" /\ todo = {}
    /\ stats.errors >= 1
    /\ ~decision.raised /\ decision.branch \in AcceptedBranches
    /\ \E i \in DOMAIN durable.sightings :
          durable.sightings[i].full_path = decision.file /\ durable.sightings[i].ingest_id = ingest_id

\* C12: catalog mutations are atomic per file. After the loop body has raised for
\* a file, no later commit (of another file, or of finish_ingest) makes durable a
\* sighting of that file in this batch or a change to the media row of its hash.
C12_AtomicPerFile ==
    [][ (pc = "walk" /\ decision.raised) =>
          /\ \A i \in DOMAIN durable'.sightings :
                ~(durable'.sightings[i].full_path = decision.file /\ durable'.sightings[i].ingest_id = ingest_id)
          /\ \A r \in durable'.media : r.hash_sha256 = decision.hash => r \in durable.media
      ]_vars

\* the files of a directory
FilesIn(d, dir) == { e \in d : e.dir = dir }

\* the step put the file it handled into the quarantine directory of a reason,
\* with a sidecar of that reason beside it
QuarantinedAs(reason) ==
    \E e \in FilesIn(disk', QuarantineDir(reason)) \ disk :
        /\ Blobs[e.blob].hash = decision'.hash
        /\ SidecarPath(e.dir, e.name) \in DOMAIN sidecars'
        /\ sidecars'[SidecarPath(e.dir, e.name)].reason = reason
        /\ sidecars'[SidecarPath(e.dir, e.name)].original_path = decision'.file

\* the step handled a file in write mode and both the rename and the copy into Review failed
MoveFailedStep == FileStep /\ decision'.move = "fail"

SightingsOf(s, path, iid) ==
    { i \in DOMAIN s : s[i].full_path = path /\ s[i].ingest_id = iid }

\* C14: the happy path. In write mode, a candidate with a resolvable capture
\* date that matches no library or review record, and whose move succeeds
\* (rename, else copy followed by unlink), has left staging for Review; its row
\* ends in state 'review' with canonical_path the placed path and taken_at the
\* resolved date, and exactly one sighting of it is recorded for this batch.
C14_HappyPath ==
    [][ (FileStep /\ ~cfg.DRY_RUN /\ decision'.branch = "place" /\ decision'.move \in {"rename", "copy"}) =>
          \E src \in todo \ todo', e \in FilesIn(disk', REVIEW_ROOT) \ disk :
              /\ e.blob = src.blob
              /\ disk' = (disk \ {src}) \cup {e}
              /\ Cardinality({ r \in media' : r.hash_sha256 = decision'.hash }) = 1
              /\ \A r \in media' : r.hash_sha256 = decision'.hash =>
                    /\ r.state = "review"
                    /\ r.canonical_path = PathStr(e.dir, e.name)
                    /\ r.taken_at # NULL
                    /\ r.taken_at = resolve_taken_at(Blobs[src.blob].meta, src.name,
                                                     cfg.ALLOW_FILENAME_DATES, cfg.date_keys)
                    /\ Cardinality(SightingsOf(sightings', decision'.file, ingest_id)) = 1
                    /\ \A i \in SightingsOf(sightings', decision'.file, ingest_id) :
                          sightings'[i].media_id = r.id
      ]_vars

\* the canonical file of a row is missing: canonical_path is null or names no file
CanonMissing(d, r) == r.canonical_path = NULL \/ ~PathExists(d, r.canonical_path)

\* C15: in write mode, when an accepted file's hash is that of a 'review' record
\* whose canonical file is missing from disk and no file operation fails, the
\* file is re-placed into Review: the record stays 'review' and its
\* canonical_path names the newly placed file.
C15_ReviewMissingReplaced ==
    [][ ( /\ FileStep /\ ~cfg.DRY_RUN
          /\ decision'.branch \in AcceptedBranches /\ ~decision'.raised /\ faults' = faults
          /\ \E r \in media : r.hash_sha256 = decision'.hash /\ r.state = "review" /\ CanonMissing(disk, r) )
        => \E r \in media', e \in FilesIn(disk', REVIEW_ROOT) \ disk :
              /\ r.hash_sha256 = decision'.hash /\ r.state = "review"
              /\ Blobs[e.blob].hash = decision'.hash
              /\ r.canonical_path = PathStr(e.dir, e.name)
      ]_vars

\* the step appended exactly one sighting: of the file it handled, in this
\* batch, referencing the canonical record it chose
OneSightingOfCanon ==
    /\ Len(sightings') = Len(sightings) + 1
    /\ SubSeq(sightings', 1, Len(sightings)) = sightings
    /\ sightings'[Len(sightings')].media_id = decision'.canon
    /\ sightings'[Len(sightings')].full_path = decision'.file
    /\ sightings'[Len(sightings')].ingest_id = ingest_id

\* the step resolved its file as a duplicate of a 'review' record
ReviewDupStep == FileStep /\ decision'.reason = "duplicate_in_review"

\* the step resolved its file as a duplicate of a 'library' record
LibraryDupStep == FileStep /\ decision'.reason = "duplicate_in_library"

\* C16: under on_review_dupe = 'ignore' a duplicate (by file or content hash) of
\* a review record is neither quarantined, moved nor deleted: files and sidecars
\* are as before; the only catalog effects are one new sighting referencing the
\* canonical record and the refresh of its last_verified_at / updated_at: no
\* row is added, and no row changes state, canonical_path, taken_at or
\* quarantine_reason.
C16_IgnoreReviewDupe ==
    [][ (ReviewDupStep /\ cfg.on_review_dupe = "ignore") =>
          /\ ~decision'.raised
          /\ disk' = disk /\ sidecars' = sidecars
          /\ OneSightingOfCanon
          /\ { r.id : r \in media' } = { r.id : r \in media }
          /\ Cardinality(media') = Cardinality(media)
          /\ \A r \in media : \E q \in media' :
                /\ q = [r EXCEPT !.last_verified_at = q.last_verified_at, !.updated_at = q.updated_at]
                /\ IF r.id = decision'.canon
                   THEN q.last_verified_at = Now /\ q.updated_at = Now
                   ELSE q = r
          /\ durable'.media = media' /\ durable'.sightings = sightings'
      ]_vars

\* under 'ignore', a re-encoded copy of a picture in Review was left in staging
\* and sighted against the review record, in write mode
C16_Witness ==
    /\ pc = "walk" /\ ~cfg.DRY_RUN /\ cfg.on_review_dupe = "ignore"
    /\ decision.reason = "duplicate_in_review" /\ decision.basis = "content"
    /\ PathExists(disk, decision.file)
    /\ SightedAs(decision.file, decision.canon)
    /\ \E r \in media : r.id = decision.canon /\ r.state = "review" /\ r.last_verified_at = Now

\* the step moved the file it handled from staging into the directory dir and
\* wrote beside it a sidecar with the given reason and extra
MovedWithSidecar(dir, reason, extra) ==
    \E src \in todo \ todo', e \in FilesIn(disk', dir) \ disk :
        /\ e.blob = src.blob
        /\ disk' = (disk \ {src}) \cup {e}
        /\ SidecarPath(e.dir, e.name) \in DOMAIN sidecars'
        /\ sidecars'[SidecarPath(e.dir, e.name)].reason = reason
        /\ sidecars'[SidecarPath(e.dir, e.name)].extra = extra
        /\ sidecars'[SidecarPath(e.dir, e.name)].original_path = decision'.file
        /\ sidecars'[SidecarPath(e.dir, e.name)].quarantined_to = PathStr(e.dir, e.name)

\* the quarantine of the step succeeded: the move (rename, else copy followed
\* by unlink) and the write of the sidecar
QuarantineMoved == decision'.qmove \in {"rename", "copy"} /\ decision'.sidecar = "written"

\* C17: under on_review_dupe = 'quarantine', in write mode with the dupes toggle
\* on, a duplicate of a review record whose quarantine move succeeds is moved to
\* Quarantine/duplicate/ with a sidecar of reason duplicate_in_review and extra
\* 'basis=file dupe_of=<id>' or 'basis=content dupe_of=<id>', <id> the canonical
\* record, and one sighting referencing the canonical record is recorded.
C17_QuarantineReviewDupe ==
    [][ ( /\ ReviewDupStep /\ cfg.on_review_dupe = "quarantine"
          /\ ~cfg.DRY_RUN /\ cfg.QUAR["dupes"] /\ QuarantineMoved )
        => /\ ~decision'.raised
           /\ decision'.basis \in {"file", "content"}
           /\ \E r \in media : r.id = decision'.canon /\ r.state = "review"
           /\ MovedWithSidecar("Quarantine/duplicate", "duplicate_in_review",
                               "basis=" \o decision'.basis \o " dupe_of=" \o decision'.canon)
           /\ OneSightingOfCanon
           /\ media' = media
      ]_vars

\* a re-encoded copy of a picture in Review went to Quarantine/duplicate with
\* the sidecar extra naming the content basis and the review record
C17_Witness ==
    /\ pc = "walk" /\ ~cfg.DRY_RUN /\ cfg.on_review_dupe = "quarantine" /\ cfg.QUAR["dupes"]
    /\ decision.reason = "duplicate_in_review" /\ decision.basis = "content"
    /\ decision.qmove = "rename" /\ ~decision.raised
    /\ ~PathExists(disk, decision.file)
    /\ SightedAs(decision.file, decision.canon)
    /\ \E q \in DOMAIN sidecars :
          /\ sidecars[q].original_path = decision.file
          /\ sidecars[q].extra = "basis=content dupe_of=" \o decision.canon

\* C18: under on_review_dupe = 'delete', in write mode, a duplicate of a review
\* record gets a sighting referencing the canonical record and is unlinked from
\* staging (nothing else changes on disk); if the unlink fails the source is
\* handed to quarantine with reason move_failed, whatever the toggles: when that
\* move succeeds it is in Quarantine/move_failed with a sidecar 'delete_failed'.
C18_DeleteReviewDupe ==
    [][ (ReviewDupStep /\ cfg.on_review_dupe = "delete" /\ ~cfg.DRY_RUN) =>
          /\ OneSightingOfCanon
          /\ \E r \in media : r.id = decision'.canon /\ r.state = "review"
          /\ media' = media
          /\ decision'.unlink \in {"ok", "fail"}
          /\ decision'.unlink = "ok" =>
                /\ ~decision'.raised /\ sidecars' = sidecars
                /\ \E src \in todo \ todo' : disk' = disk \ {src}
          /\ decision'.unlink = "fail" =>
                /\ decision'.qmove # NULL
                /\ QuarantineMoved => MovedWithSidecar("Quarantine/move_failed", "move_failed", "delete_failed")
      ]_vars

\* under 'delete' the unlink of a review duplicate failed and the file was
\* quarantined as move_failed, its sighting recorded
C18_Witness ==
    /\ pc = "walk" /\ ~cfg.DRY_RUN /\ cfg.on_review_dupe = "delete"
    /\ decision.reason = "duplicate_in_review" /\ decision.unlink = "fail" /\ ~decision.raised
    /\ SightedAs(decision.file, decision.canon)
    /\ ~PathExists(disk, decision.file)
    /\ \E e \in FilesIn(disk, "Quarantine/move_failed") :
          /\ Blobs[e.blob].hash = decision.hash
          /\ SidecarPath(e.dir, e.name) \in DOMAIN sidecars
          /\ sidecars[SidecarPath(e.dir, e.name)].extra = "delete_failed"

\* C19: a duplicate of a library record is quarantined whenever the dupes
\* toggle is on, whatever on_review_dupe says: in write mode quarantine_file is
\* invoked on it and the file is never unlinked; when the move succeeds it is in
\* Quarantine/duplicate with a sidecar of reason duplicate_in_library, and one
\* sighting referencing the library record is recorded; no row changes.
C19_LibraryDupeQuarantined ==
    [][ (LibraryDupStep /\ cfg.QUAR["dupes"] /\ ~cfg.DRY_RUN) =>
          /\ \E r \in media : r.id = decision'.canon /\ r.state = "library"
          /\ decision'.qmove # NULL /\ decision'.unlink = NULL
          /\ media' = media
          /\ QuarantineMoved =>
                /\ MovedWithSidecar("Quarantine/duplicate", "duplicate_in_library",
                                    "basis=" \o decision'.basis \o " dupe_of=" \o decision'.canon)
                /\ OneSightingOfCanon
      ]_vars

\* under on_review_dupe = 'delete' a duplicate of a library record went to
\* Quarantine/duplicate and was sighted against the library record
C19_Witness ==
    /\ pc = "walk" /\ ~cfg.DRY_RUN /\ cfg.on_review_dupe = "delete" /\ cfg.QUAR["dupes"]
    /\ decision.reason = "duplicate_in_library" /\ decision.qmove = "rename"
    /\ SightedAs(decision.file, decision.canon)
    /\ \E e \in FilesIn(disk, "Quarantine/duplicate") :
          /\ Blobs[e.blob].hash = decision.hash
          /\ SidecarPath(e.dir, e.name) \in DOMAIN sidecars
          /\ sidecars[SidecarPath(e.dir, e.name)].reason = "duplicate_in_library"

\* the rows of the catalog in state 'library' or 'review'
Live == { r \in media : r.state \in {"library", "review"} }

\* the step chose its canonical record among rows, a library row if there is
\* one, and named the reason after the state of the chosen record
ChoseFrom(rows) ==
    \E r \in rows :
        /\ r.id = decision'.canon
        /\ (\E q \in rows : q.state = "library") => r.state = "library"
        /\ decision'.reason = IF r.state = "library" THEN "duplicate_in_library" ELSE "duplicate_in_review"

\* C20: dedup resolution. A hashed file is looked up first by its file hash
\* among the library and review records, and by its content hash only if that
\* finds nothing and a content hash is available; within a lookup a library
\* record is chosen over a review record; a quarantine or deleted record is never
\* chosen; the reason is duplicate_in_library exactly when the chosen record is a
\* library record, else duplicate_in_review; with no match there is no duplicate.
C20_DedupResolution ==
    [][ (FileStep /\ decision'.branch \in AcceptedBranches) =>
          LET byFile == { r \in Live : r.hash_sha256 = decision'.hash }
              byPix  == { r \in Live : decision'.content # NULL /\ r.content_sha256 = decision'.content }
          IN IF byFile # {} THEN decision'.basis = "file" /\ ChoseFrom(byFile)
             ELSE IF byPix # {} THEN decision'.basis = "content" /\ ChoseFrom(byPix)
             ELSE decision'.canon = NULL /\ decision'.reason = NULL /\ decision'.basis = NULL
      ]_vars

\* a file matched a library record and a review record by content, and the
\* library record was chosen
C20_Witness ==
    /\ pc = "walk" /\ decision.basis = "content" /\ decision.reason = "duplicate_in_library"
    /\ \E r, q \in media :
          /\ r.id = decision.canon /\ r.state = "library" /\ r.content_sha256 = decision.content
          /\ q.state = "review" /\ q.content_sha256 = decision.content
    /\ SightedAs(decision.file, decision.canon)

\* every row without taken_at is a quarantine row of reason missing_datetime
TakenAtKnown ==
    \A r \in media :
        r.taken_at = NULL => (r.state = "quarantine" /\ r.quarantine_reason = "missing_datetime")

\* C21: ingest produces no row with taken_at NULL other than a quarantine row
\* of reason missing_datetime: a catalog in which every row without taken_at is
\* such a row is again one after any step of ingest.
C21_TakenAtNullOnlyMissingDate ==
    [][TakenAtKnown => TakenAtKnown']_vars

\* ingest has just recorded a file without capture date, as a new row with taken_at NULL
C21_Witness ==
    /\ pc = "walk" /\ decision.branch = "missing_datetime" /\ ~decision.raised
    /\ decision.hash \notin batch.hashes
    /\ TakenAtKnown
    /\ \E r \in media : r.hash_sha256 = decision.hash /\ r.taken_at = NULL

\* the step handled, in write mode with the missing_datetime toggle on, a file
\* without capture date that duplicates nothing, and its quarantine move succeeded
MissingDateStep ==
    /\ FileStep /\ ~cfg.DRY_RUN /\ cfg.QUAR["missing_datetime"]
    /\ decision'.branch = "missing_datetime" /\ QuarantineMoved

\* the step appended exactly one sighting, of the file it handled, in this
\* batch, referencing the row id
OneSightingOf(id) ==
    /\ Len(sightings') = Len(sightings) + 1
    /\ SubSeq(sightings', 1, Len(sightings)) = sightings
    /\ sightings'[Len(sightings')].media_id = id
    /\ sightings'[Len(sightings')].full_path = decision'.file
    /\ sightings'[Len(sightings')].ingest_id = ingest_id

FirstParseable(meta, keys) ==
    LET hits == { i \in 1..Len(keys) : keys[i] \in DOMAIN meta /\ _parse_exif_dt(meta[keys[i]]) # NULL }
    IN IF hits = {} THEN NULL
       ELSE _parse_exif_dt(meta[keys[CHOOSE i \in hits : \A j \in hits : i <= j]])

\* the capture time the policy of C23 prescribes
PolicyTakenAt(meta, n, allow_filename_dates, allow_file_dates) ==
    LET camera == FirstParseable(meta, BASE_DATE_KEYS)
        file   == FirstParseable(meta, << "ModifyDate", "FileModifyDate" >>)
    IN IF camera # NULL THEN camera
       ELSE IF allow_file_dates /\ file # NULL THEN file
       ELSE IF allow_filename_dates THEN _taken_from_filename(n)
       ELSE NULL

\* C23: the capture time a new file is recorded with (when its processing does
\* not raise) is the first parseable
\* value among the camera-origin keys in their order, else (only under
\* allow_file_dates) the first parseable of ModifyDate, FileModifyDate, else
\* (only under allow_filename_dates) the date in the filename, else none, in
\* which case the file goes the missing-date way; a metadata date wins over the
\* filename.
C23_ResolvePolicy ==
    [][ ( /\ FileStep /\ decision'.branch \in {"missing_datetime", "place"} /\ ~decision'.raised
          /\ ~\E q \in media : q.hash_sha256 = decision'.hash )
        => \E src \in todo \ todo' :
              LET t == PolicyTakenAt(Blobs[src.blob].meta, src.name,
                                     cfg.ALLOW_FILENAME_DATES, toml.allow_file_dates)
              IN /\ (decision'.branch = "missing_datetime") <=> (t = NULL)
                 /\ \E r \in media' : r.hash_sha256 = decision'.hash
                 /\ \A r \in media' : r.hash_sha256 = decision'.hash => r.taken_at = t
      ]_vars

\* with both fallbacks allowed, a file named after 2019-01-01 whose only dates
\* are ModifyDate 2024-07-08 and FileModifyDate 2024-07-10 was recorded as
\* taken on 2024-07-08
C23_Witness ==
    /\ pc = "walk" /\ cfg.ALLOW_FILENAME_DATES /\ toml.allow_file_dates
    /\ decision.file = "Staging/pc/PHOTO-2019-01-01-01-02-03.jpg"
    /\ decision.hash = Blobs["R3"].hash
    /\ \E r \in media : r.hash_sha256 = decision.hash /\ r.taken_at = T1

\* the name the non-clobber rule prescribes in dir for the target name n: n
\* itself if free, else n with the smallest suffix _i, i >= 2, that is free
RuleName(d, dir, n) ==
    IF ~Exists(d, dir, n) THEN n
    ELSE Suffixed(n, CHOOSE i \in 2..9 :
                        /\ ~Exists(d, dir, Suffixed(n, i))
                        /\ \A j \in 2..(i - 1) : Exists(d, dir, Suffixed(n, j)))

\* the directories ingest puts files into
Placed(d) == { e \in d : e.dir = REVIEW_ROOT \/ e.dir \in { QuarantineDir(r) : r \in Reasons } }

\* C24: non-clobber placement. A file that a step puts into Review or a
\* Quarantine folder gets the name the rule prescribes for its target name (the
\* canonical name in Review, its own name in Quarantine); and the step
\* overwrites nothing there: every file of Review and Quarantine is still there
\* with its content, no two files share a path, and every sidecar is as it was.
C24_NonClobber ==
    [][ FileStep =>
          /\ \A e \in Placed(disk' \ disk) : \E src \in todo \ todo' :
                LET target == IF e.dir = REVIEW_ROOT
                              THEN canonical_name(resolve_taken_at(Blobs[src.blob].meta, src.name,
                                                                   cfg.ALLOW_FILENAME_DATES, cfg.date_keys),
                                                  Blobs[src.blob].hash, src.name.ext)
                              ELSE src.name
                IN e.blob = src.blob /\ e.name = RuleName(disk, e.dir, target)
          /\ Placed(disk) \subseteq disk'
          /\ \A e1, e2 \in disk' : (e1.dir = e2.dir /\ e1.name = e2.name) => e1 = e2
          /\ \A q \in DOMAIN sidecars : q \in DOMAIN sidecars' /\ sidecars'[q] = sidecars[q]
      ]_vars

\* C25: for every file placed into Review, the timestamp at the start of its
\* basename is the taken_at of its catalog row and the 8 hex characters after
\* it are the first 8 of the row's hash_sha256, also when the row existed before.
C25_NameMatchesRow ==
    [][ (FileStep /\ decision'.move \in {"rename", "copy", "copy_keep"}) =>
          \A e \in FilesIn(disk', REVIEW_ROOT) \ disk :
              \E r \in media' :
                  /\ r.hash_sha256 = decision'.hash
                  /\ r.canonical_path = PathStr(e.dir, e.name)
                  /\ r.taken_at # NULL
                  /\ SubSeq(e.name.stem, 1, 19) = Stamp(r.taken_at)
                  /\ SubSeq(e.name.stem, 21, 28) = SubSeq(r.hash_sha256, 1, 8)
      ]_vars

\* the fields a quarantine sidecar records
SidecarFields == {"reason", "ingest_id", "original_path", "quarantined_to", "timestamp", "extra"}

\* a sidecar with all its fields lies next to the path
HasSidecar(path) ==
    /\ (path \o ".quarantine.json") \in DOMAIN sidecars
    /\ DOMAIN sidecars[path \o ".quarantine.json"] = SidecarFields

\* C26: every file in Quarantine, and every row in state 'quarantine' with a
\* canonical_path, has a sidecar at '<path>.quarantine.json' that records
\* reason, ingest_id, original_path, quarantined_to, timestamp and extra.
C26_SidecarBesideQuarantined ==
    /\ \A e \in disk : e.dir \in { QuarantineDir(r) : r \in Reasons } => HasSidecar(PathStr(e.dir, e.name))
    /\ \A r \in media : (r.state = "quarantine" /\ r.canonical_path # NULL) => HasSidecar(r.canonical_path)

\* no two rows of the table carry the same hash_sha256
UniqueHash(m) == \A r1 \in m, r2 \in m : r1.hash_sha256 = r2.hash_sha256 => r1 = r2

\* the steps whose branch calls upsert_media and runs to its end
UpsertStep == FileStep /\ decision'.branch \in {"missing_datetime", "place"} /\ ~decision'.raised

\* C27: hash_sha256 is unique in media, in the connection's view and in what is
\* committed, in every state of every sequence of ingests. A step that upserts
\* leaves exactly one row with the file's hash: a new row when none existed,
\* otherwise the existing row (same id, no second row), and the
\* sighting it records refers to that row's id.
C27_HashUnique ==
    /\ UniqueHash(media) /\ UniqueHash(durable.media)
    /\ [][ /\ UniqueHash(media') /\ UniqueHash(durable'.media)
           /\ UpsertStep =>
                 /\ Cardinality({ r \in media' : r.hash_sha256 = decision'.hash }) = 1
                 /\ \A r \in media : r.hash_sha256 = decision'.hash =>
                       \E r2 \in media' : r2.hash_sha256 = r.hash_sha256 /\ r2.id = r.id
                 /\ Cardinality(media') = Cardinality(media) + (IF RowsOfHash(decision'.hash) = {} THEN 1 ELSE 0)
                 /\ \E r2 \in media', i \in DOMAIN sightings' \ DOMAIN sightings :
                       /\ r2.hash_sha256 = decision'.hash
                       /\ sightings'[i].media_id = r2.id
         ]_vars

\* a file whose hash already had a row was upserted: still one row of that hash
C27_Witness ==
    /\ pc = "walk" /\ decision.branch \in {"missing_datetime", "place"} /\ ~decision.raised
    /\ decision.hash \in batch.hashes
    /\ Cardinality(RowsOfHash(decision.hash)) = 1
    /\ \E r \in RowsOfHash(decision.hash) : SightedAs(decision.file, r.id)

\* every row of m is still in m2 under its id and hash
RowsKept(m, m2) == \A r \in m : \E r2 \in m2 : r2.id = r.id /\ r2.hash_sha256 = r.hash_sha256

\* the sightings of s are those of s2 at the same rowids, unmodified
SightingsKept(s, s2) == Len(s) <= Len(s2) /\ SubSeq(s2, 1, Len(s)) = s

\* C28: media and sightings are append-only. No step of the engine deletes a
\* media row, and none deletes or modifies a sighting: the rows of both tables,
\* as the connection sees them and as committed, only grow.
C28_AppendOnly ==
    [][ /\ RowsKept(media, media') /\ SightingsKept(sightings, sightings')
        /\ RowsKept(durable.media, durable'.media)
        /\ SightingsKept(durable.sightings, durable'.sightings)
      ]_vars

\* a later batch has added a row and a sighting to those of an earlier batch
C28_Witness ==
    /\ pc = "walk" /\ decision.branch \in AcceptedBranches /\ ~decision.raised
    /\ Cardinality(media) >= 2
    /\ Len(sightings) >= 2
    /\ sightings[1].ingest_id # sightings[Len(sightings)].ingest_id
    /\ Len(durable.sightings) >= 1

\* the reasons a quarantine toggle governs
ReasonsOf(k) == IF k = "dupes" THEN {"duplicate_in_library", "duplicate_in_review"} ELSE {k}

\* the sidecars written for one of the reasons rs
NotesFor(sc, rs) == { q \in DOMAIN sc : sc[q].reason \in rs }

\* the branch in which the file would be quarantined for a reason of toggle k
RoutedFor(d, k) ==
    \/ d.branch = k
    \/ k = "dupes" /\ d.branch \in {"duplicate_file", "duplicate_content"}
                   /\ (d.reason = "duplicate_in_library" \/ cfg.on_review_dupe = "quarantine")

\* C29: the quarantine toggles are master switches. While the toggle of a
\* reason is false, no step of a write-mode scan puts a file into that reason's
\* Quarantine folder or writes a sidecar for that reason, in any branch, and a
\* file that would have been quarantined for that reason stays where it was.
C29_ToggleIsMaster ==
    [][ FileStep =>
          \A k \in QuarKeys : ~cfg.QUAR[k] =>
              /\ \A r \in ReasonsOf(k) : FilesIn(disk', QuarantineDir(r)) \subseteq disk
              /\ NotesFor(sidecars', ReasonsOf(k)) \subseteq NotesFor(sidecars, ReasonsOf(k))
              /\ RoutedFor(decision', k) => disk' = disk
      ]_vars

\* the requests whose coroutine is inside "async with _icloud_sync_lock"
InFlight(q) == { r \in Requests : q[r].at = "communicate" }

\* C30: concurrent downloader runs are prevented. At most one icloudpd child
\* started by the sync endpoint runs at a time, and the lock is held exactly
\* while a run is in flight: it is free again after a run ends with success,
\* with an error or with a failure to build the command. A request that
\* arrives while a run is in flight returns 'busy' and starts no child.
C30_SingleSync ==
    /\ []( /\ Cardinality(procs) <= 1
           /\ Cardinality(InFlight(requests)) <= 1
           /\ procs \subseteq InFlight(requests)
           /\ _icloud_sync_lock <=> InFlight(requests) # {} )
    /\ [][ \A r \in Requests :
             (requests[r].at = "new" /\ requests'[r].at # "new" /\ InFlight(requests) # {})
             => /\ requests'[r].at = "returned"
                /\ requests'[r].reply.status = "busy"
                /\ procs' = procs
         ]_vars

\* a run has ended and released the lock, a later run holds it with its child
\* alive, and a request that arrived meanwhile was answered 'busy'
C30_Witness ==
    \E r1 \in Requests, r2 \in Requests, r3 \in Requests :
        /\ requests[r1].reply.status = "done"
        /\ requests[r2].at = "communicate" /\ r2 \in procs /\ _icloud_sync_lock
        /\ requests[r3].reply.status = "busy"

\* the rows ingest may hand to upsert_media: one per file content, with the
\* candidate state 'review' (a dated file) or 'quarantine' (no capture date)
CandidateRows ==
    { MediaRow(Blobs[b].hash, Blobs[b].pixels, IF st = "review" THEN T1 ELSE NULL, Blobs[b].meta,
               st, NULL, IF st = "quarantine" THEN "missing_datetime" ELSE NULL, Now) :
        b \in DOMAIN Blobs, st \in {"review", "quarantine"} }

\* C31: the state rule of upsert_media. On every reachable catalog and for
\* every candidate row: if a row of the hash exists, its state after the upsert
\* is its old state when that is library, quarantine or deleted, and the
\* candidate's state otherwise; if none exists the new row has the candidate's
\* state.
C31_UpsertStateRule ==
    \A row \in CandidateRows :
        LET old == { r \in media : r.hash_sha256 = row.hash_sha256 }
            new == { r \in upsert_media(media, row, Now) : r.hash_sha256 = row.hash_sha256 }
        IN /\ Cardinality(new) = 1
           /\ \A r2 \in new :
                 IF old = {} THEN r2.state = row.state
                 ELSE \A r \in old :
                        r2.state = IF r.state \in {"library", "quarantine", "deleted"}
                                   THEN r.state ELSE row.state

\* a dry run has upserted a 'review' candidate over a row that was 'deleted',
\* and the row is still 'deleted'
C31_Witness ==
    /\ pc = "walk" /\ cfg.DRY_RUN /\ decision.branch = "place" /\ ~decision.raised
    /\ decision.hash \in batch.hashes
    /\ \E r \in media : r.hash_sha256 = decision.hash /\ r.state = "deleted"

\* the fields ingest promotes
Promoted == {"taken_at", "gps_lat", "gps_lon", "content_sha256", "canonical_path"}

\* C32: field promotion is monotone. Through every step of ingest (the upsert
\* and the UPDATEs after a move or a failed move), no existing media row has
\* one of taken_at, gps_lat, gps_lon, content_sha256, canonical_path change
\* from a value to NULL.
C32_PromotionMonotone ==
    [][ \A r \in media : \A r2 \in media' :
           r2.id = r.id => \A f \in Promoted : r[f] # NULL => r2[f] # NULL
      ]_vars

\* the disposition the precedence order gives a file on catalog m when no
\* system call fails
Disposition(src, m) ==
    LET blob    == Blobs[src.blob]
        content == IF src.name.ext \in IMAGE_EXT THEN blob.pixels ELSE NULL
    IN IF IsJunk(src.name) THEN "junk"
       ELSE IF ~is_media_candidate(src.name) THEN "unsupported_ext"
       ELSE IF blob.size = 0 THEN "zero_bytes"
       ELSE IF \E r \in m : r.hash_sha256 = blob.hash /\ r.state \in {"library", "review"}
            THEN "duplicate_file"
       ELSE IF content # NULL /\ \E r \in m : r.content_sha256 = content /\ r.state \in {"library", "review"}
            THEN "duplicate_content"
       ELSE IF resolve_taken_at(blob.meta, src.name, cfg.ALLOW_FILENAME_DATES, cfg.date_keys) = NULL
            THEN "missing_datetime"
       ELSE "place"

\* the dispositions that end before the file is hashed
EarlyBranches == {"junk", "unsupported_ext", "stat_error", "zero_bytes"}

\* C33: pipeline precedence. Each walked file gets one disposition, decided in
\* the order junk name or prefix (whatever its extension), unsupported
\* extension, stat error, zero bytes, file-hash duplicate, content-hash
\* duplicate, missing capture date, placement (a failing stat gives stat_error
\* and a failing hash ends the iteration in the catch-all, both only for
\* supported non-junk files); at most one file appears in Review or Quarantine
\* for it; the early dispositions touch neither media nor sightings; 'scanned'
\* counts exactly the supported non-junk files; a duplicate without a capture
\* date is handled as a duplicate.
C33_Precedence ==
    [][ (FileStep /\ pc' = "walk") =>
          /\ Cardinality(todo \ todo') = 1
          /\ \A src \in todo \ todo' :
                LET counted == ~IsJunk(src.name) /\ is_media_candidate(src.name)
                IN /\ decision'.file = PathStr(src.dir, src.name)
                   /\ \/ decision'.branch = Disposition(src, media)
                      \/ decision'.branch = "stat_error" /\ counted
                      \/ decision'.branch = "hash_error" /\ counted /\ Blobs[src.blob].size > 0
                   /\ stats'.scanned = stats.scanned + (IF counted THEN 1 ELSE 0)
                   /\ decision'.branch \in EarlyBranches => (media' = media /\ sightings' = sightings)
                   /\ Cardinality(disk' \ disk) <= 1
                   /\ (decision'.branch \in {"duplicate_file", "duplicate_content"})
                        => { r.id : r \in media' } = { r.id : r \in media }
      ]_vars

\* a file without capture date whose hash is that of a 'review' record was
\* handled as a duplicate, and a junk name with a supported extension as junk
C33_Witness ==
    /\ pc = "walk" /\ ~decision.raised
    /\ decision.branch = "duplicate_file"
    /\ \E e \in disk \cup batch.files :
          /\ PathStr(e.dir, e.name) = decision.file
          /\ resolve_taken_at(Blobs[e.blob].meta, e.name, cfg.ALLOW_FILENAME_DATES, cfg.date_keys) = NULL

\* C34: sighting per processed file. A step that processes a file which passed
\* classification, stat, the size check and hashing, and that ends without an
\* exception, appends exactly one sighting: its full_path is the file, its
\* ingest_id the current batch, and its media_id the id of a row of media (the
\* matched canonical record for a duplicate, the row of the file's own hash
\* otherwise).
C34_OneSightingPerFile ==
    [][ (FileStep /\ pc' = "walk" /\ decision'.branch \in AcceptedBranches /\ ~decision'.raised) =>
          /\ Len(sightings') = Len(sightings) + 1
          /\ SubSeq(sightings', 1, Len(sightings)) = sightings
          /\ LET new == sightings'[Len(sightings')]
             IN /\ new.full_path = decision'.file
                /\ new.ingest_id = ingest_id
                /\ \E r \in media' : r.id = new.media_id
                /\ IF decision'.branch \in {"duplicate_file", "duplicate_content"}
                   THEN /\ new.media_id = decision'.canon
                        /\ \E r \in media : /\ r.id = new.media_id
                                             /\ r.state \in {"library", "review"}
                                             /\ \/ r.hash_sha256 = decision'.hash
                                                \/ r.content_sha256 = decision'.content
                   ELSE \E r \in media' : r.id = new.media_id /\ r.hash_sha256 = decision'.hash
      ]_vars

\* a content duplicate was sighted in the current batch, right after the
\* sighting of another file of the same batch
C34_Witness ==
    /\ pc = "walk" /\ ~decision.raised /\ ~cfg.DRY_RUN
    /\ decision.branch = "duplicate_content"
    /\ Len(sightings) >= 2
    /\ sightings[Len(sightings)].full_path = decision.file
    /\ sightings[Len(sightings)].ingest_id = ingest_id
    /\ sightings[Len(sightings) - 1].ingest_id = ingest_id
    /\ sightings[Len(sightings) - 1].full_path # decision.file

\* C35: delete policy keeps one copy. In write mode under on_review_dupe =
\* 'delete', a step that unlinks the staged file does so only when the record
\* the file duplicates has a non-null canonical_path and a file exists at that
\* path.
C35_DeleteKeepsACopy ==
    [][ (FileStep /\ pc' = "walk" /\ ~cfg.DRY_RUN /\ cfg.on_review_dupe = "delete"
           /\ decision'.unlink = "ok") =>
          \E r \in media :
             /\ r.id = (IF decision'.canon # NULL THEN decision'.canon ELSE uuid_from_hash(decision'.hash))
             /\ r.canonical_path # NULL
             /\ PathExists(disk', r.canonical_path)
      ]_vars

\* C36: a dry run does not change a later write run. The outcome of a write
\* run over a tree is decided, file by file, by the disposition the catalog
\* gives each file; so no dry-run step may change the disposition of any file
\* of the tree being scanned: the write run that follows then treats every
\* file as the write run alone would have.
C36_DryRunInvisible ==
    [][ (FileStep /\ pc' = "walk" /\ cfg.DRY_RUN /\ ~decision'.raised) =>
          \A f \in batch.files : Disposition(f, media') = Disposition(f, media)
      ]_vars

\* the directories a move of the engine can put a file in
MoveTargets == {REVIEW_ROOT} \cup { QuarantineDir(r) : r \in Reasons }

\* C37: no move loses a file. In every step that processes a file and does
\* not delete it under the 'delete' policy, whatever rename, copy or unlink
\* fails: the file's bytes are afterwards at the source, or in a new file under
\* Review or Quarantine; the source is gone only if such a new file holds its
\* bytes; no other file disappears; and a quarantine note written by the step
\* names a destination (the path quarantine_file returns) only if a file with
\* those bytes exists there.
C37_NoMoveLosesAFile ==
    [][ (FileStep /\ pc' = "walk" /\ decision'.unlink # "ok") =>
          \A src \in todo \ todo' :
             LET new == { e \in disk' \ disk : e.blob = src.blob /\ e.dir \in MoveTargets }
             IN /\ src \in disk' \/ new # {}
                /\ disk \ disk' \subseteq {src}
                /\ disk' \ disk \subseteq new
                /\ \A q \in DOMAIN sidecars' :
                      (q \notin DOMAIN sidecars \/ sidecars'[q] # sidecars[q]) =>
                         \/ sidecars'[q].quarantined_to = NULL /\ src \in disk'
                         \/ \E e \in new : PathStr(e.dir, e.name) = sidecars'[q].quarantined_to
      ]_vars

\* the rename and the copy into Review failed, then those into Quarantine:
\* the file is still at its source
C37_Witness ==
    /\ pc = "walk" /\ ~cfg.DRY_RUN /\ ~decision.raised
    /\ decision.move = "fail" /\ decision.qmove = "fail"
    /\ PathExists(disk, decision.file)
    /\ \E e \in disk : Blobs[e.blob].hash = decision.hash /\ PathStr(e.dir, e.name) = decision.file

\* whether a path lies under a root directory
UnderRoot(path, root) ==
    Len(path) > Len(root) + 1 /\ SubSeq(path, 1, Len(root) + 1) = root \o "/"

\* C38: state and location agree. In every reachable catalog, a row in state
\* 'review' with a non-null canonical_path has it under the Review root, and a
\* row in state 'quarantine' with a non-null canonical_path has it under the
\* Quarantine root.
C38_StateMatchesLocation ==
    \A r \in media :
       r.canonical_path # NULL =>
          /\ r.state = "review" => UnderRoot(r.canonical_path, REVIEW_ROOT)
          /\ r.state = "quarantine" => UnderRoot(r.canonical_path, QUARANTINE_ROOT)

\* a row that was in the catalog when the scan began, with its file in
\* Quarantine, has been placed: it is now in state 'review' with a path under
\* Review
C38_Witness ==
    /\ pc = "walk" /\ ~cfg.DRY_RUN /\ ~decision.raised
    /\ decision.branch = "place" /\ decision.move = "rename"
    /\ decision.hash \in batch.hashes
    /\ \E r \in media : /\ r.hash_sha256 = decision.hash
                         /\ r.state = "review"
                         /\ UnderRoot(r.canonical_path, REVIEW_ROOT)
                         /\ PathExists(disk, r.canonical_path)
    /\ \E r \in media : /\ r.state = "quarantine"
                         /\ r.canonical_path # NULL
                         /\ UnderRoot(r.canonical_path, QUARANTINE_ROOT)

\* C39: the resolver is total. resolve_taken_at gives an ISO timestamp or
\* null for every file and never raises; so the iteration over a file ends in
\* an exception only when a system call failed, and a file that duplicates
\* nothing and has no usable date in its metadata or (when filename dates are
\* allowed) in its name, a date-shaped name with month 13 included, is
\* handled as missing_datetime.
C39_ResolverTotal ==
    [][ (FileStep /\ pc' = "walk" /\ faults' = faults) =>
          \A src \in todo \ todo' :
             LET t == resolve_taken_at(Blobs[src.blob].meta, src.name,
                                       cfg.ALLOW_FILENAME_DATES, cfg.date_keys)
             IN /\ t \in {NULL, T1, T2, T3}
                /\ ~decision'.raised
                /\ (Disposition(src, media) \in {"missing_datetime", "place"} /\ t \notin {T1, T2, T3})
                      => decision'.branch = "missing_datetime"
      ]_vars

RECURSIVE SumOver(_, _)
SumOver(f, S) ==
    IF S = {} THEN 0 ELSE LET x == CHOOSE y \in S : TRUE IN f[x] + SumOver(f, S \ {x})

\* C40: counters agree. While a source is walked (after each file, whether it
\* was processed normally or ended in the catch-all) and in the statistics
\* returned, 'quarantined' equals the sum of the per-reason counters q_counts,
\* and 'moved' is at most 'scanned'.
C40_CountersAgree ==
    (pc = "walk") =>
        /\ stats.quarantined = SumOver(stats.q_counts, Reasons)
        /\ stats.moved <= stats.scanned

====
